---- MODULE Spec2Model ----
(***************************************************************************)
(* wedbav: a WebDAV server over one SQL table.  This module models the     *)
(* virtual filesystem KyselyFs (fs.ts) over the table `filesystem`.        *)
(*                                                                         *)
(* Strings are sequences of one-character strings, so that prefixes, LIKE  *)
(* patterns and trailing slashes are computed as the code computes them.   *)
(* The table is a function from the primary key `path` to the row.         *)
(***************************************************************************)
EXTENDS Integers, Sequences, FiniteSets, TLC

VARIABLES table, now, dbType, univ, req, options

vars == <<table, now, dbType, univ, req, options>>

(***************************************************************************)
(* Bounds of the model.                                                    *)
(***************************************************************************)
MaxRows == 2
MaxByte == 1
MaxPath == 12
MaxLen == 3
MaxChunk == 3
MaxQueries == 5
\* THRESHOLD of readBufferOrStream and highWaterMark of createReadStream,
\* both 1 MiB in the code, scaled to one byte
THRESHOLD == 1

\* SQL NULL in the content column: a value that is no byte string
NULL == <<-1>>
NONE == "NONE"
\* the etag of a VStats built without one
UNDEFINED == <<"undefined">>
OK == "OK"

(***************************************************************************)
(* Character strings.                                                      *)
(***************************************************************************)
SLASH == "/"
BACKSLASH == "\\"

RECURSIVE Concat(_)
Concat(ss) == IF ss = <<>> THEN <<>> ELSE Head(ss) \o Concat(Tail(ss))

StartsWith(s, pre) == Len(s) >= Len(pre) /\ SubSeq(s, 1, Len(pre)) = pre

EndsWithSlash(s) == Len(s) > 0 /\ s[Len(s)] = SLASH

\* character codes (UTF-16 code units) of the alphabet, for Array.sort()
CharCode(c) ==
  CASE c = "%" -> 37
    [] c = "." -> 46
    [] c = "/" -> 47
    [] c = "\\" -> 92
    [] c = "_" -> 95
    [] c = "a" -> 97
    [] c = "b" -> 98
    [] c = "c" -> 99
    [] c = "x" -> 120

RECURSIVE StrLess(_, _)
StrLess(s, t) ==
  IF t = <<>> THEN FALSE
  ELSE IF s = <<>> THEN TRUE
  ELSE IF Head(s) = Head(t) THEN StrLess(Tail(s), Tail(t))
  ELSE CharCode(Head(s)) < CharCode(Head(t))

\* s.split("/")
RECURSIVE SplitFrom(_, _)
SplitFrom(s, cur) ==
  IF s = <<>> THEN <<cur>>
  ELSE IF Head(s) = SLASH THEN <<cur>> \o SplitFrom(Tail(s), <<>>)
  ELSE SplitFrom(Tail(s), Append(cur, Head(s)))

Split(s) == SplitFrom(s, <<>>)

\* segs.join("/")
RECURSIVE Join(_)
Join(segs) ==
  IF segs = <<>> THEN <<>>
  ELSE IF Len(segs) = 1 THEN Head(segs)
  ELSE Head(segs) \o <<SLASH>> \o Join(Tail(segs))

(***************************************************************************)
(* utils.ts                                                                *)
(***************************************************************************)
RECURSIVE removeSuffixSlash(_)
removeSuffixSlash(input) ==
  IF EndsWithSlash(input) THEN removeSuffixSlash(SubSeq(input, 1, Len(input) - 1))
  ELSE input

\* node:path/posix normalizeString for an absolute path: drop empty and "."
\* segments, let ".." remove the segment before it (nothing above the root)
RECURSIVE NormalizeSegs(_, _)
NormalizeSegs(segs, acc) ==
  IF segs = <<>> THEN acc
  ELSE IF Head(segs) = <<>> \/ Head(segs) = <<".">> THEN NormalizeSegs(Tail(segs), acc)
  ELSE IF Head(segs) = <<".", ".">>
    THEN NormalizeSegs(Tail(segs), IF acc = <<>> THEN acc ELSE SubSeq(acc, 1, Len(acc) - 1))
  ELSE NormalizeSegs(Tail(segs), Append(acc, Head(segs)))

\* normalizePathLike = path.normalize on an absolute path: the trailing
\* separator is kept, except that the root is "/"
normalizePathLike(pathLike) ==
  LET body == Join(NormalizeSegs(Split(pathLike), <<>>))
  IN  <<SLASH>> \o body \o (IF body /= <<>> /\ EndsWithSlash(pathLike) THEN <<SLASH>> ELSE <<>>)

\* key.replace(/[\%_]/g, String.raw`\\$&`): each % and _ gets two backslashes
\* in front; a backslash itself is not in the character class
RECURSIVE encodePathForSQL(_)
encodePathForSQL(key) ==
  IF key = <<>> THEN <<>>
  ELSE (IF Head(key) \in {"%", "_"} THEN <<BACKSLASH, BACKSLASH, Head(key)>> ELSE <<Head(key)>>)
       \o encodePathForSQL(Tail(key))

\* createEtag: the quoted sha-256 hex digest of the content; the digest is
\* kept symbolic, as a value determined by the content
Sha256Hex(content) == <<"sha256", content>>
createEtag(content) == <<"\"", Sha256Hex(content), "\"">>

(***************************************************************************)
(* SQL: `path LIKE pattern`.  The statements carry no ESCAPE clause        *)
(* (kysely emits `"path" like ?`), so the escape character is the          *)
(* dialect's default: none in SQLite, the backslash in MySQL and Postgres. *)
(***************************************************************************)
likeEscape(db) == IF db = "sqlite" THEN NONE ELSE BACKSLASH

RECURSIVE sqlLike(_, _, _)
sqlLike(s, pat, esc) ==
  IF pat = <<>> THEN s = <<>>
  ELSE IF Head(pat) = esc
    THEN /\ Len(pat) >= 2
         /\ s /= <<>>
         /\ Head(s) = pat[2]
         /\ sqlLike(Tail(s), SubSeq(pat, 3, Len(pat)), esc)
  ELSE IF Head(pat) = "%"
    THEN \/ sqlLike(s, Tail(pat), esc)
         \/ (s /= <<>> /\ sqlLike(Tail(s), pat, esc))
  ELSE IF Head(pat) = "_"
    THEN s /= <<>> /\ sqlLike(Tail(s), Tail(pat), esc)
  ELSE s /= <<>> /\ Head(s) = Head(pat) /\ sqlLike(Tail(s), Tail(pat), esc)

\* the keys selected by  where("path", "like", `${encodePathForSQL(dirKey)}%`)
likePrefix(t, db, dirKey) ==
  { k \in DOMAIN t : sqlLike(k, encodePathForSQL(dirKey) \o <<"%">>, likeEscape(db)) }

(***************************************************************************)
(* Rows of the table (FilesystemTable) and the VStats built from them.     *)
(***************************************************************************)
FileRow(created, modified, content) ==
  [created_at |-> created, modified_at |-> modified, size |-> Len(content),
   etag |-> createEtag(content), content |-> content, meta |-> NULL]

DirRow(t) ==
  [created_at |-> t, modified_at |-> t, size |-> 0, etag |-> <<>>,
   content |-> NULL, meta |-> NULL]

VStats(created, modified, size, etag, fullPath, isDirectory) ==
  [found |-> TRUE, isDirectory |-> isDirectory, isFile |-> ~isDirectory,
   size |-> size, etag |-> etag, birthtimeMs |-> created, mtimeMs |-> modified,
   fullPath |-> fullPath]

NoStats == [found |-> FALSE]

SetMin(S) == CHOOSE x \in S : \A y \in S : x <= y
SetMax(S) == CHOOSE x \in S : \A y \in S : x >= y

getFileStats(t, fileKey) ==
  IF fileKey \in DOMAIN t
  THEN VStats(t[fileKey].created_at, t[fileKey].modified_at, t[fileKey].size,
              t[fileKey].etag, fileKey, FALSE)
  ELSE NoStats

getExplicitDirStats(t, dirKey) ==
  IF dirKey \in DOMAIN t
  THEN VStats(t[dirKey].created_at, t[dirKey].modified_at, 0, UNDEFINED, dirKey, TRUE)
  ELSE NoStats

\* the lookup without the % after the prefix: only the row dirKey itself
getImplicitDirStats_exact(t, db, dirKey) ==
  LET rows == ({dirKey} \cap DOMAIN t) \ {dirKey}
  IN  IF rows /= {} THEN VStats(1, 1, 0, UNDEFINED, dirKey, TRUE) ELSE NoStats

\* min(created_at), max(modified_at) over the rows LIKE dirKey% other than
\* dirKey; the aggregate of no row is NULL, and a created_at of 0 is falsy
getImplicitDirStats(t, db, dirKey) ==
  LET rows == likePrefix(t, db, dirKey) \ {dirKey}
  IN  IF rows /= {} /\ SetMin({ t[k].created_at : k \in rows }) /= 0
      THEN VStats(SetMin({ t[k].created_at : k \in rows }),
                  SetMax({ t[k].modified_at : k \in rows }), 0, UNDEFINED, dirKey, TRUE)
      ELSE NoStats

\* a lookup that derives every directory from its children
getDirStats_implicitOnly(t, db, dirKey) ==
  IF dirKey = <<>> THEN getImplicitDirStats(t, db, <<SLASH>>)
  ELSE getImplicitDirStats(t, db, dirKey)

getDirStats(t, db, dirKey) ==
  IF dirKey = <<>> THEN getImplicitDirStats(t, db, <<SLASH>>)
  ELSE IF getExplicitDirStats(t, dirKey).found THEN getExplicitDirStats(t, dirKey)
  ELSE getImplicitDirStats(t, db, dirKey)

\* stat: the VStats, or NoStats where the code throws ENOENT
stat(t, db, path) ==
  LET key == normalizePathLike(path)
  IN  IF EndsWithSlash(key)
      THEN getDirStats(t, db, removeSuffixSlash(key) \o <<SLASH>>)
      ELSE IF getFileStats(t, key).found THEN getFileStats(t, key)
      ELSE getDirStats(t, db, key \o <<SLASH>>)

\* readFile: the bytes, or NULL where the code throws ENOENT.  A stored
\* empty byte string is an (always truthy) empty Uint8Array
readFile(t, path) ==
  LET fileKey == removeSuffixSlash(normalizePathLike(path))
  IN  IF fileKey \in DOMAIN t /\ t[fileKey].content /= NULL THEN t[fileKey].content ELSE NULL

(***************************************************************************)
(* node:path/posix dirname, and String.prototype.replace with a string     *)
(* pattern (the first occurrence only).                                    *)
(***************************************************************************)
\* the index of the last "/" of path that is not a trailing one, 0 if none
\* is found at an index above 1
RECURSIVE dirnameEnd(_, _, _)
dirnameEnd(path, i, matchedSlash) ==
  IF i < 2 THEN 0
  ELSE IF path[i] = SLASH
    THEN (IF matchedSlash THEN dirnameEnd(path, i - 1, TRUE) ELSE i)
  ELSE dirnameEnd(path, i - 1, FALSE)

dirname(path) ==
  LET hasRoot == Len(path) > 0 /\ path[1] = SLASH
      end == dirnameEnd(path, Len(path), TRUE)
  IN  IF path = <<>> THEN <<".">>
      ELSE IF end = 0 THEN (IF hasRoot THEN <<SLASH>> ELSE <<".">>)
      ELSE IF hasRoot /\ end = 2 THEN <<SLASH, SLASH>>
      ELSE SubSeq(path, 1, end - 1)

RECURSIVE replaceFirst(_, _, _)
replaceFirst(s, pat, rep) ==
  IF StartsWith(s, pat) THEN rep \o SubSeq(s, Len(pat) + 1, Len(s))
  ELSE IF s = <<>> THEN s
  ELSE <<Head(s)>> \o replaceFirst(Tail(s), pat, rep)

(***************************************************************************)
(* Statements on the table.                                                *)
(***************************************************************************)
Put(t, k, row) == [x \in DOMAIN t \cup {k} |-> IF x = k THEN row ELSE t[x]]

Delete(t, ks) == [x \in DOMAIN t \ ks |-> t[x]]

\* UPDATE ... SET path = newKey, modified_at = ts WHERE path = oldKey, for
\* a newKey that is free or oldKey itself
UpdatePath(t, oldKey, newKey, ts) ==
  IF oldKey \notin DOMAIN t THEN t
  ELSE Put(Delete(t, {oldKey}), newKey, [t[oldKey] EXCEPT !.modified_at = ts])

\* the primary key rejects the update of a row's path to another row's path
PathConflict(t, oldKey, newKey) ==
  oldKey \in DOMAIN t /\ newKey /= oldKey /\ newKey \in DOMAIN t

Result(code, t) == [code |-> code, table |-> t]

(***************************************************************************)
(* The operations of KyselyFs: each yields the error code of the VFSError  *)
(* it throws (OK when it returns) and the table it leaves.                 *)
(***************************************************************************)
\* an upsert that leaves a conflicting row as it is (DO NOTHING)
writeFile_keepOld(t, db, file, data, ts) ==
  LET fileKey == removeSuffixSlash(normalizePathLike(file))
      dirKey == fileKey \o <<SLASH>>
  IN  IF getExplicitDirStats(t, dirKey).found THEN Result("EISDIR", t)
      ELSE IF fileKey \in DOMAIN t THEN Result(OK, t)
      ELSE Result(OK, Put(t, fileKey, FileRow(ts, ts, data)))

\* writeFile whose upsert also overwrites created_at on conflict
writeFile_resetCreated(t, db, file, data, ts) ==
  LET fileKey == removeSuffixSlash(normalizePathLike(file))
      dirKey == fileKey \o <<SLASH>>
  IN  IF getExplicitDirStats(t, dirKey).found THEN Result("EISDIR", t)
      ELSE Result(OK, Put(t, fileKey, FileRow(ts, ts, data)))

writeFile(t, db, file, data, ts) ==
  LET fileKey == removeSuffixSlash(normalizePathLike(file))
      dirKey == fileKey \o <<SLASH>>
  IN  IF getExplicitDirStats(t, dirKey).found THEN Result("EISDIR", t)
      ELSE IF fileKey \in DOMAIN t
        THEN Result(OK, [t EXCEPT ![fileKey] =
               [@ EXCEPT !.modified_at = ts, !.size = Len(data),
                         !.content = data, !.etag = createEtag(data)]])
      ELSE Result(OK, Put(t, fileKey, FileRow(ts, ts, data)))

mkdir(t, db, path, recursive, ts) ==
  LET fileKey == removeSuffixSlash(normalizePathLike(path))
      dirKey == fileKey \o <<SLASH>>
      parentDirKey == dirname(dirKey) \o <<SLASH>>
  IN  IF getFileStats(t, fileKey).found THEN Result("EEXIST", t)
      ELSE IF getDirStats(t, db, dirKey).found THEN Result("EEXIST", t)
      ELSE IF ~recursive /\ parentDirKey /= <<".", SLASH>>
              /\ ~getDirStats(t, db, parentDirKey).found
        THEN Result("ENOENT", t)
      ELSE Result(OK, Put(t, dirKey, DirRow(ts)))

copyFile(t, db, src, dest, ts) ==
  LET srcKey == normalizePathLike(src)
      destKey == normalizePathLike(dest)
  IN  IF EndsWithSlash(srcKey) THEN Result("EINVAL", t)
      ELSE IF EndsWithSlash(destKey) THEN Result("EISDIR", t)
      ELSE IF getDirStats(t, db, destKey \o <<SLASH>>).found THEN Result("EISDIR", t)
      ELSE IF srcKey \notin DOMAIN t THEN Result("ENOENT", t)
      ELSE IF destKey \in DOMAIN t
        THEN Result(OK, [t EXCEPT ![destKey] =
               [@ EXCEPT !.modified_at = ts, !.size = t[srcKey].size,
                         !.content = t[srcKey].content, !.etag = t[srcKey].etag]])
      ELSE Result(OK, Put(t, destKey,
               [created_at |-> ts, modified_at |-> ts, size |-> t[srcKey].size,
                etag |-> t[srcKey].etag, content |-> t[srcKey].content, meta |-> NULL]))

rmdir(t, db, path, recursive) ==
  LET fileKey == removeSuffixSlash(normalizePathLike(path))
      dirKey == fileKey \o <<SLASH>>
      t1 == Delete(t, {dirKey})
  IN  IF getFileStats(t, fileKey).found THEN Result("ENOTDIR", t)
      ELSE IF ~recursive /\ likePrefix(t, db, dirKey) /= {} THEN Result("ENOTEMPTY", t)
      ELSE Result(OK, Delete(t1, likePrefix(t1, db, dirKey)))

unlink(t, path) ==
  LET key == normalizePathLike(path)
  IN  IF EndsWithSlash(key) THEN Result("EISDIR", t)
      ELSE Result(OK, Delete(t, {key}))

\* rm: the rmdir promise is returned without await, so its rejection is not
\* caught; a failure of stat or unlink is caught and becomes ENOENT unless
\* force is set
rm(t, db, path, recursive, force) ==
  LET fileKey == removeSuffixSlash(normalizePathLike(path))
      dirKey == fileKey \o <<SLASH>>
      st == stat(t, db, path)
      un == unlink(t, fileKey)
  IN  IF ~st.found THEN Result(IF force THEN OK ELSE "ENOENT", t)
      ELSE IF st.isDirectory THEN rmdir(t, db, dirKey, recursive)
      ELSE IF un.code /= OK THEN Result(IF force THEN OK ELSE "ENOENT", un.table)
      ELSE un

\* the directory branch of rename updates the selected rows one statement
\* at a time, in the order the SELECT returned them, which SQL leaves open:
\* the set of possible results.  An update onto an existing key is rejected
\* by the primary key and ends the loop with the driver's error
RECURSIVE renameRows(_, _, _, _, _)
renameRows(t, todo, oldDirKey, newDirKey, ts) ==
  IF todo = {} THEN {Result(OK, t)}
  ELSE UNION { IF PathConflict(t, k, replaceFirst(k, oldDirKey, newDirKey))
               THEN {Result("DB_CONSTRAINT", t)}
               ELSE renameRows(UpdatePath(t, k, replaceFirst(k, oldDirKey, newDirKey), ts),
                               todo \ {k}, oldDirKey, newDirKey, ts)
               : k \in todo }

rename(t, db, oldPath, newPath, ts) ==
  LET oldKey == normalizePathLike(oldPath)
      newKey == normalizePathLike(newPath)
      newDirKey == removeSuffixSlash(newKey) \o <<SLASH>>
      explicitDir == getExplicitDirStats(t, oldKey).found
      t1 == IF explicitDir THEN UpdatePath(t, oldKey, newDirKey, ts) ELSE t
  IN  IF EndsWithSlash(oldKey)
      THEN IF explicitDir /\ getExplicitDirStats(t, newDirKey).found
           THEN {Result("EEXIST", t)}
           ELSE renameRows(t1, likePrefix(t1, db, oldKey), oldKey, newDirKey, ts)
      ELSE IF ~getFileStats(t, oldKey).found THEN {Result("ENOENT", t)}
      ELSE IF getDirStats(t, db, newKey \o <<SLASH>>).found THEN {Result("EISDIR", t)}
      ELSE IF getFileStats(t, newKey).found THEN {Result("EEXIST", t)}
      ELSE {Result(OK, UpdatePath(t, oldKey, newKey, ts))}

(***************************************************************************)
(* readdir                                                                 *)
(***************************************************************************)
\* segments of an absolute path, as path.resolve leaves them
Segs(path) == NormalizeSegs(Split(path), <<>>)

RECURSIVE CommonLen(_, _)
CommonLen(a, b) ==
  IF a = <<>> \/ b = <<>> \/ Head(a) /= Head(b) THEN 0
  ELSE 1 + CommonLen(Tail(a), Tail(b))

\* node:path/posix relative(from, to) of two absolute paths
relative(from, to) ==
  LET f == Segs(from)
      g == Segs(to)
      c == CommonLen(f, g)
  IN  Join([i \in 1..(Len(f) - c) |-> <<".", ".">>] \o SubSeq(g, c + 1, Len(g)))

RECURSIVE SortStrings(_)
SortStrings(S) ==
  IF S = {} THEN <<>>
  ELSE LET m == CHOOSE x \in S : \A y \in S \ {x} : StrLess(x, y)
       IN  <<m>> \o SortStrings(S \ {m})

Includes(s, c) == \E i \in 1..Len(s) : s[i] = c

VDirent(prefix, fullPath, isDirectory) ==
  LET segments == Split(replaceFirst(fullPath, prefix, <<>>))
  IN  [name |-> segments[Len(segments)],
       parentPath |-> Join(SubSeq(segments, 1, Len(segments) - 1)),
       fullPath |-> fullPath, isDirectory |-> isDirectory, isFile |-> ~isDirectory]

\* the rows readdir looks at: those LIKE dirKey%, without dirKey itself
readdirRows(t, db, dirKey) == likePrefix(t, db, dirKey) \ {dirKey}

\* the prefixes of rel that end before a "/"
ancestorRels(rel) == { SubSeq(rel, 1, i - 1) : i \in { j \in 1..Len(rel) : rel[j] = SLASH } }

readdirDirSet(t, db, dirKey, recursive) ==
  LET rows == readdirRows(t, db, dirKey)
      first(k) == Split(relative(dirKey, k))[1]
  IN  IF recursive
      THEN { removeSuffixSlash(k) : k \in { r \in rows : EndsWithSlash(r) } }
           \cup UNION { { dirKey \o d : d \in ancestorRels(removeSuffixSlash(relative(dirKey, k))) \ {<<>>} }
                        : k \in rows }
      ELSE { removeSuffixSlash(dirKey \o first(k)) :
               k \in { r \in rows : /\ (EndsWithSlash(r) \/ Includes(relative(dirKey, r), SLASH))
                                    /\ first(r) /= <<>> } }

readdirFileSet(t, db, dirKey, recursive) ==
  LET rows == { r \in readdirRows(t, db, dirKey) : ~EndsWithSlash(r) }
  IN  IF recursive THEN rows
      ELSE { dirKey \o relative(dirKey, k) : k \in { r \in rows : ~Includes(relative(dirKey, r), SLASH) } }

\* readdir(path, {withFileTypes: true}): directories first, each part sorted
readdir(t, db, path, recursive) ==
  LET dirKey == removeSuffixSlash(normalizePathLike(path)) \o <<SLASH>>
      dirs == SortStrings(readdirDirSet(t, db, dirKey, recursive))
      files == SortStrings(readdirFileSet(t, db, dirKey, recursive))
  IN  [i \in 1..Len(dirs) |-> VDirent(dirKey, dirs[i], TRUE)]
      \o [i \in 1..Len(files) |-> VDirent(dirKey, files[i], FALSE)]

(***************************************************************************)
(* The inputs of the model: paths as callers pass them, and contents.      *)
(* A behaviour works on one universe of names, fixed at the start:         *)
(*   "tree": /a, /a/b, /a/b/c and /a%b, /a%b/c                             *)
(*   "like": /a%b, /a_b, /axb, each with a child c                         *)
(*   "esc":  /a%b, /a\b, /a\\b, each with a child c                         *)
(***************************************************************************)
Path(segs) == Concat([i \in 1..Len(segs) |-> <<SLASH>> \o segs[i]])

TreePaths ==
  { Path(<<<<"a">>>>), Path(<<<<"a">>, <<"b">>>>), Path(<<<<"a">>, <<"b">>, <<"c">>>>),
    Path(<<<<"a", "%", "b">>>>), Path(<<<<"a", "%", "b">>, <<"c">>>>) }

LikePaths ==
  { Path(<<<<"a", "%", "b">>>>), Path(<<<<"a", "%", "b">>, <<"c">>>>),
    Path(<<<<"a", "_", "b">>>>), Path(<<<<"a", "_", "b">>, <<"c">>>>),
    Path(<<<<"a", "x", "b">>>>), Path(<<<<"a", "x", "b">>, <<"c">>>>) }

\* names with the backslashes that encodePathForSQL puts into its patterns
EscPaths ==
  { Path(<<<<"a", "%", "b">>>>), Path(<<<<"a", "%", "b">>, <<"c">>>>),
    Path(<<<<"a", BACKSLASH, "b">>>>), Path(<<<<"a", BACKSLASH, "b">>, <<"c">>>>),
    Path(<<<<"a", BACKSLASH, BACKSLASH, "b">>>>),
    Path(<<<<"a", BACKSLASH, BACKSLASH, "b">>, <<"c">>>>) }

BasePaths(u) == IF u = "tree" THEN TreePaths ELSE IF u = "esc" THEN EscPaths ELSE LikePaths

\* a path that is not normalized: "/a//b/.." in "tree", "/axb//c/.." in "like"
Unnormalized(u) ==
  IF u = "tree" THEN <<"/", "a", "/", "/", "b", "/", ".", ".">>
  ELSE <<"/", "a", "x", "b", "/", "/", "c", "/", ".", ".">>

\* the paths a caller passes: also with a trailing slash, and the root
Paths(u) ==
  BasePaths(u) \cup { p \o <<SLASH>> : p \in BasePaths(u) } \cup { <<SLASH>>, Unnormalized(u) }

\* the second path of rename and copyFile
DestPaths(u) ==
  BasePaths(u) \cup { p \o <<SLASH>> : p \in { q \in BasePaths(u) : Len(Segs(q)) = 2 } }

\* the keys a table of the model holds: file keys, directory keys, and the
\* keys "" and "/" that the root path leads to
Keys(u) == BasePaths(u) \cup { p \o <<SLASH>> : p \in BasePaths(u) } \cup { <<>>, <<SLASH>> }

Contents == { <<>> } \cup { <<v>> : v \in 1..MaxByte }

Fits(t) ==
  /\ Cardinality(DOMAIN t) <= MaxRows
  /\ DOMAIN t \subseteq Keys(univ)

\* the options createHono is given by startServerFromFS: no auth predicate,
\* no credentials in the environment, the browser feature off
DefaultOptions == [auth |-> FALSE, env |-> FALSE, browser |-> "disabled"]

Idle == [pc |-> "idle"]

(***************************************************************************)
(* The state after construction: the table exists and is empty; dbType     *)
(* defaults to "sqlite".                                                   *)
(***************************************************************************)
Init ==
  /\ table = <<>>
  /\ now = 1
  /\ dbType = "sqlite"
  /\ univ = "tree"
  /\ req = Idle
  /\ options = DefaultOptions

Done(r) ==
  /\ Fits(r.table)
  /\ table' = r.table
  /\ UNCHANGED <<now, dbType, univ, req, options>>

WriteFile == \E p \in Paths(univ), b \in Contents : Done(writeFile(table, dbType, p, b, now))

Mkdir == \E p \in Paths(univ), recursive \in BOOLEAN : Done(mkdir(table, dbType, p, recursive, now))

CopyFile == \E p \in Paths(univ), q \in DestPaths(univ) : Done(copyFile(table, dbType, p, q, now))

Rename ==
  \E p \in Paths(univ), q \in DestPaths(univ) :
    \E r \in rename(table, dbType, p, q, now) : Done(r)

Rmdir == \E p \in Paths(univ), recursive \in BOOLEAN : Done(rmdir(table, dbType, p, recursive))

Unlink == \E p \in Paths(univ) : Done(unlink(table, p))

Rm ==
  \E p \in Paths(univ), recursive \in BOOLEAN, force \in BOOLEAN :
    Done(rm(table, dbType, p, recursive, force))

Next == WriteFile \/ Mkdir \/ CopyFile \/ Rename \/ Rmdir \/ Unlink \/ Rm

Spec == Init /\ [][Next]_vars

(***************************************************************************)
(* Properties.  A property of an operation is stated over every reachable  *)
(* table: the operation is applied there to every input of the universe.   *)
(***************************************************************************)
StatIsFileOf(t, db, p, b) ==
  LET st == stat(t, db, p)
  IN  st.found /\ st.isFile /\ ~st.isDirectory /\ st.size = Len(b) /\ st.etag = createEtag(b)

DirKeyOf(p) == p \o <<SLASH>>

HasFileRow(t, p) == p \in DOMAIN t

HasDirRow(t, p) == DirKeyOf(p) \in DOMAIN t

\* some row lies under p: its key begins with p/ and is not p/ itself
HasRowUnder(t, p) ==
  \E k \in DOMAIN t : StartsWith(k, DirKeyOf(p)) /\ k /= DirKeyOf(p)

IsDirectory(st) == st.found /\ st.isDirectory /\ ~st.isFile

IsFile(st) == st.found /\ st.isFile /\ ~st.isDirectory

\* C2: in every reachable table, for every path p: stat(p), when it
\* succeeds, is exactly one of file and directory; it reports a file when
\* the file row p exists, else a directory when the row p/ exists or some
\* row lies under p/, and fails (ENOENT) only when none of these exists.
C2_StatKinds ==
  \A p \in BasePaths(univ) :
    LET st == stat(table, dbType, p)
    IN  /\ st.found => (st.isFile /= st.isDirectory)
        /\ HasFileRow(table, p) => IsFile(st)
        /\ ~HasFileRow(table, p) /\ (HasDirRow(table, p) \/ HasRowUnder(table, p))
             => IsDirectory(st)
        /\ ~st.found
             => ~HasFileRow(table, p) /\ ~HasDirRow(table, p) /\ ~HasRowUnder(table, p)

pA == Path(<<<<"a">>>>)
pAB == Path(<<<<"a">>, <<"b">>>>)
pABC == Path(<<<<"a">>, <<"b">>, <<"c">>>>)

NothingAtOrUnder(t, p) == ~HasFileRow(t, p) /\ ~HasDirRow(t, p) /\ ~HasRowUnder(t, p)

C3_Post(t, db, b) ==
  /\ IsDirectory(stat(t, db, pA)) /\ IsDirectory(stat(t, db, pAB))
  /\ DOMAIN t \cap {pA, DirKeyOf(pA), pAB, DirKeyOf(pAB)} = {}
  /\ LET inA == readdir(t, db, pA, FALSE)
         inAB == readdir(t, db, pAB, FALSE)
     IN  /\ Len(inA) = 1 /\ inA[1].name = <<"b">> /\ inA[1].isDirectory
         /\ Len(inAB) = 1 /\ inAB[1].name = <<"c">> /\ inAB[1].isFile
  /\ readFile(t, pABC) = b

C4_MkdirExists ==
  \A p \in BasePaths(univ), recursive \in BOOLEAN :
    /\ HasFileRow(table, p) \/ HasDirRow(table, p) \/ HasRowUnder(table, p)
         => mkdir(table, dbType, p, recursive, now) = Result("EEXIST", table)
    /\ LET r == mkdir(table, dbType, p, recursive, now)
       IN  r.code = OK
             => \A again \in BOOLEAN :
                  mkdir(r.table, dbType, p, again, now) = Result("EEXIST", r.table)

(***************************************************************************)
(* C5: explicit directories persist, implicit ones go with their rows.     *)
(***************************************************************************)
\* the results of removing q by unlink, rmdir or rm, options included
Removals(t, db, q) ==
  { unlink(t, q) }
  \cup { rmdir(t, db, q, recursive) : recursive \in BOOLEAN }
  \cup { rm(t, db, q, x[1], x[2]) : x \in BOOLEAN \X BOOLEAN }

\* q names something strictly under the directory p
StrictlyUnder(q, p) ==
  /\ StartsWith(normalizePathLike(q), DirKeyOf(p))
  /\ normalizePathLike(q) /= DirKeyOf(p)

\* after mkdir(d) succeeds, d stats as a directory and readdir(d) is empty
C5_AfterMkdir ==
  \A d \in BasePaths(univ), recursive \in BOOLEAN :
    LET r == mkdir(table, dbType, d, recursive, now)
    IN  r.code = OK
          => IsDirectory(stat(r.table, dbType, d)) /\ readdir(r.table, dbType, d, FALSE) = <<>>

\* a directory with the row d/ still stats as a directory after anything
\* under it is removed
C5_ExplicitPersists ==
  \A d \in BasePaths(univ) :
    HasDirRow(table, d) /\ IsDirectory(stat(table, dbType, d))
      => \A q \in { x \in Paths(univ) : StrictlyUnder(x, d) } :
           \A r \in Removals(table, dbType, q) : IsDirectory(stat(r.table, dbType, d))

\* P is an implicit directory of t and the removal leading to t2 took the
\* last row under P/
LastRowGone(t, t2, P) ==
  /\ ~HasDirRow(t, P) /\ HasRowUnder(t, P)
  /\ ~HasDirRow(t2, P) /\ ~HasRowUnder(t2, P)

C6_RenameFile ==
  \A a \in BasePaths(univ), b \in DestPaths(univ) :
    HasFileRow(table, a) /\ ~stat(table, dbType, b).found
      => \A r \in rename(table, dbType, a, b, now) :
           r.code = OK
             => ~stat(r.table, dbType, a).found /\ readFile(r.table, b) = readFile(table, a)

\* C7: after rm(d, {recursive: true}) returns, with force (as DELETE calls
\* it) or without, no row has the key d/ or a key beginning with d/, and
\* stat(d) reports nothing.
C7_RmRecursive ==
  \A d \in BasePaths(univ), force \in BOOLEAN :
    LET r == rm(table, dbType, d, TRUE, force)
    IN  r.code = OK
          => /\ ~HasDirRow(r.table, d) /\ ~HasRowUnder(r.table, d)
             /\ ~stat(r.table, dbType, d).found

\* C9: no reachable table holds both a file row p and the explicit
\* directory row p/.
C9_NoFileAndDirRow ==
  \A k \in DOMAIN table : ~(k \o <<SLASH>> \in DOMAIN table)

(***************************************************************************)
(* C8: names holding the LIKE wildcards.  The table holds names of the     *)
(* "like" universe (/a%b, /a_b, /axb and a child c of each), under each of *)
(* the three dialects the constructor accepts.                             *)
(***************************************************************************)
InitLike ==
  /\ table = <<>>
  /\ now = 1
  /\ dbType \in {"sqlite", "mysql", "pg"}
  /\ univ = "like"
  /\ req = Idle
  /\ options = DefaultOptions

SpecLike == InitLike /\ [][Next]_vars

WildcardDirs == { Path(<<<<"a", "%", "b">>>>), Path(<<<<"a", "_", "b">>>>) }

LiterallyUnder(t, d) == { k \in DOMAIN t : StartsWith(k, DirKeyOf(d)) }

\* C8: for d = /a%b or /a_b with a row under d/: stat(d) finds the
\* directory, readdir(d) lists its children, recursive rmdir and rm of d
\* remove exactly the rows whose key literally begins with d/, and a rename
\* of the directory d/ leaves every row outside d/ as it was.
C8_LikeLiteral ==
  \A d \in WildcardDirs :
    LiterallyUnder(table, d) /= {} /\ ~HasFileRow(table, d)
      => /\ IsDirectory(stat(table, dbType, d))
         /\ readdir(table, dbType, d, FALSE) /= <<>>
         /\ rmdir(table, dbType, d, TRUE)
              = Result(OK, Delete(table, LiterallyUnder(table, d)))
         /\ \A force \in BOOLEAN :
              rm(table, dbType, d, TRUE, force)
                = Result(OK, Delete(table, LiterallyUnder(table, d)))
         /\ \A q \in BasePaths(univ) :
              \A r \in rename(table, dbType, DirKeyOf(d), q, now) :
                r.code = OK
                  => /\ LiterallyUnder(r.table, d) = {}
                     /\ \A k \in DOMAIN table \ LiterallyUnder(table, d) :
                          k \in DOMAIN r.table /\ r.table[k] = table[k]

(***************************************************************************)
(* C10: two requests at once.  A request runs mkdir or writeFile; every    *)
(* `await` of a SQL statement is one step, and the steps of the two        *)
(* requests interleave freely.  req[i] holds the call of request i, the    *)
(* statement it is about to run, and the code it ended with.               *)
(***************************************************************************)
Procs == {1, 2}

ConcPaths == {pA, pAB}

Call(pc, op, path, recursive, data, code) ==
  [pc |-> pc, op |-> op, path |-> path, recursive |-> recursive, data |-> data, code |-> code]

NoCall == Call("idle", "none", <<>>, FALSE, <<>>, NONE)

InitConc ==
  /\ table = <<>>
  /\ now = 1
  /\ dbType = "sqlite"
  /\ univ = "tree"
  /\ req = [i \in Procs |-> NoCall]
  /\ options = DefaultOptions

fileKeyOf(r) == removeSuffixSlash(normalizePathLike(r.path))
dirKeyOf(r) == fileKeyOf(r) \o <<SLASH>>
parentDirKeyOf(r) == dirname(dirKeyOf(r)) \o <<SLASH>>

Goto(i, pc) == req' = [req EXCEPT ![i].pc = pc] /\ UNCHANGED <<table, now, dbType, univ, options>>

Throw(i, code) ==
  /\ req' = [req EXCEPT ![i].pc = "done", ![i].code = code]
  /\ UNCHANGED <<table, now, dbType, univ, options>>

Return(i, t) ==
  /\ req' = [req EXCEPT ![i].pc = "done", ![i].code = OK]
  /\ table' = t
  /\ UNCHANGED <<now, dbType, univ, options>>

\* a request arrives: mkdir(path, {recursive}) or writeFile(path, data)
CallMkdir(i) ==
  /\ req[i].pc = "idle"
  /\ \E p \in ConcPaths, recursive \in BOOLEAN :
       req' = [req EXCEPT ![i] = Call("mkdir_file", "mkdir", p, recursive, <<>>, NONE)]
  /\ UNCHANGED <<table, now, dbType, univ, options>>

CallWriteFile(i) ==
  /\ req[i].pc = "idle"
  /\ \E p \in ConcPaths, b \in Contents :
       req' = [req EXCEPT ![i] = Call("write_dir", "writeFile", p, FALSE, b, NONE)]
  /\ UNCHANGED <<table, now, dbType, univ, options>>

\* mkdir: if (await this._getFileStats(fileKey)) throw EEXIST
MkdirFileStats(i) ==
  /\ req[i].pc = "mkdir_file"
  /\ IF getFileStats(table, fileKeyOf(req[i])).found
     THEN Throw(i, "EEXIST") ELSE Goto(i, "mkdir_explicit")

\* mkdir: _getDirStats(dirKey), its first statement
MkdirExplicitDirStats(i) ==
  /\ req[i].pc = "mkdir_explicit"
  /\ IF getExplicitDirStats(table, dirKeyOf(req[i])).found
     THEN Throw(i, "EEXIST") ELSE Goto(i, "mkdir_implicit")

\* mkdir: _getDirStats(dirKey), its second statement; then the parent
\* check when not recursive
MkdirImplicitDirStats(i) ==
  /\ req[i].pc = "mkdir_implicit"
  /\ IF getImplicitDirStats(table, dbType, dirKeyOf(req[i])).found
     THEN Throw(i, "EEXIST")
     ELSE IF ~req[i].recursive /\ parentDirKeyOf(req[i]) /= <<".", SLASH>>
     THEN Goto(i, "mkdir_parent_explicit")
     ELSE Goto(i, "mkdir_insert")

\* mkdir: _getDirStats(parentDirKey), its first statement
MkdirParentExplicit(i) ==
  /\ req[i].pc = "mkdir_parent_explicit"
  /\ IF getExplicitDirStats(table, parentDirKeyOf(req[i])).found
     THEN Goto(i, "mkdir_insert") ELSE Goto(i, "mkdir_parent_implicit")

\* mkdir: _getDirStats(parentDirKey), its second statement
MkdirParentImplicit(i) ==
  /\ req[i].pc = "mkdir_parent_implicit"
  /\ IF getImplicitDirStats(table, dbType, parentDirKeyOf(req[i])).found
     THEN Goto(i, "mkdir_insert") ELSE Throw(i, "ENOENT")

\* mkdir: the INSERT; path is the primary key, so a second row with the
\* key is rejected by the database
MkdirInsert(i) ==
  /\ req[i].pc = "mkdir_insert"
  /\ IF dirKeyOf(req[i]) \in DOMAIN table
     THEN Throw(i, "DB_CONSTRAINT")
     ELSE Return(i, Put(table, dirKeyOf(req[i]), DirRow(now)))

\* writeFile: if (await this._getExplicitDirStats(dirKey)) throw EISDIR
WriteFileDirStats(i) ==
  /\ req[i].pc = "write_dir"
  /\ IF getExplicitDirStats(table, dirKeyOf(req[i])).found
     THEN Throw(i, "EISDIR") ELSE Goto(i, "write_upsert")

\* writeFile: INSERT ... ON CONFLICT (path) DO UPDATE
WriteFileUpsert(i) ==
  /\ req[i].pc = "write_upsert"
  /\ LET k == fileKeyOf(req[i])
         data == req[i].data
     IN  Return(i, IF k \in DOMAIN table
                   THEN [table EXCEPT ![k] =
                          [@ EXCEPT !.modified_at = now, !.size = Len(data),
                                    !.content = data, !.etag = createEtag(data)]]
                   ELSE Put(table, k, FileRow(now, now, data)))

NextConc ==
  \E i \in Procs :
    \/ CallMkdir(i) \/ CallWriteFile(i)
    \/ MkdirFileStats(i) \/ MkdirExplicitDirStats(i) \/ MkdirImplicitDirStats(i)
    \/ MkdirParentExplicit(i) \/ MkdirParentImplicit(i) \/ MkdirInsert(i)
    \/ WriteFileDirStats(i) \/ WriteFileUpsert(i)

SpecConc == InitConc /\ [][NextConc]_vars

\* C10: whatever the interleaving of two requests, the table never holds
\* both the file row p and the directory row p/, and a mkdir(p) and a
\* writeFile(p) on the same base path never both succeed.
C10_NoCorruption ==
  /\ \A k \in DOMAIN table : ~(k \o <<SLASH>> \in DOMAIN table)
  /\ \A i \in Procs, j \in Procs :
       /\ req[i].op = "mkdir" /\ req[j].op = "writeFile"
       /\ fileKeyOf(req[i]) = fileKeyOf(req[j])
       => ~(req[i].code = OK /\ req[j].code = OK)

(***************************************************************************)
(* C11: a directory rename(old/, new/) running with a writeFile to a child *)
(* of old/.  The directory branch of rename is a sequence of statements:   *)
(* SELECT the explicit row, SELECT the explicit destination row, UPDATE    *)
(* the explicit row, SELECT the rows LIKE old/%, and one UPDATE per row    *)
(* selected.  req[1] is the rename, req[2] the writeFile.                  *)
(***************************************************************************)
pD == Path(<<<<"d">>>>)

RenCall(pc, todo, code) ==
  [pc |-> pc, op |-> "rename", path |-> DirKeyOf(pA), newPath |-> DirKeyOf(pD),
   todo |-> todo, code |-> code]

\* the tables the two requests start from: a file /a/b, with or without
\* the explicit row /a/ and a second file /a/b/c, as earlier calls of
\* mkdir and writeFile leave them
RenTables ==
  { w2.table :
      w2 \in UNION { { w1, writeFile(w1.table, "sqlite", pABC, c, 1) } :
               w1 \in UNION { { writeFile(m.table, "sqlite", pAB, b, 1) : b \in Contents } :
                        m \in { Result(OK, <<>>), mkdir(<<>>, "sqlite", pA, TRUE, 1) } },
               c \in Contents } }

InitRen ==
  /\ table \in RenTables
  /\ now = 1
  /\ dbType = "sqlite"
  /\ univ = "tree"
  /\ req = <<RenCall("rename_explicit", {}, NONE), NoCall>>
  /\ options = DefaultOptions

oldKeyOf(r) == normalizePathLike(r.path)
newDirKeyOf(r) == removeSuffixSlash(normalizePathLike(r.newPath)) \o <<SLASH>>

\* rename: const explicitDir = await this._getExplicitDirStats(oldKey)
RenameExplicitDirStats ==
  /\ req[1].pc = "rename_explicit"
  /\ IF getExplicitDirStats(table, oldKeyOf(req[1])).found
     THEN Goto(1, "rename_dest") ELSE Goto(1, "rename_select")

\* rename: if (await this._getExplicitDirStats(newDirKey)) throw EEXIST
RenameDestDirStats ==
  /\ req[1].pc = "rename_dest"
  /\ IF getExplicitDirStats(table, newDirKeyOf(req[1])).found
     THEN Throw(1, "EEXIST") ELSE Goto(1, "rename_update_dir")

\* rename: UPDATE of the explicit row's path
RenameUpdateDir ==
  /\ req[1].pc = "rename_update_dir"
  /\ IF PathConflict(table, oldKeyOf(req[1]), newDirKeyOf(req[1]))
     THEN Throw(1, "DB_CONSTRAINT")
     ELSE /\ table' = UpdatePath(table, oldKeyOf(req[1]), newDirKeyOf(req[1]), now)
          /\ req' = [req EXCEPT ![1].pc = "rename_select"]
          /\ UNCHANGED <<now, dbType, univ, options>>

\* rename: const allFiles = await ... where("path", "like", oldDirKey%)
RenameSelect ==
  /\ req[1].pc = "rename_select"
  /\ LET allFiles == likePrefix(table, dbType, oldKeyOf(req[1]))
     IN  req' = [req EXCEPT ![1].todo = allFiles,
                            ![1].pc = IF allFiles = {} THEN "done" ELSE "rename_rows",
                            ![1].code = IF allFiles = {} THEN OK ELSE NONE]
  /\ UNCHANGED <<table, now, dbType, univ, options>>

\* rename: one turn of the loop, the UPDATE of one selected row; the call
\* returns after the last one
RenameUpdateRow ==
  /\ req[1].pc = "rename_rows"
  /\ \E k \in req[1].todo :
       LET newPath == replaceFirst(k, oldKeyOf(req[1]), newDirKeyOf(req[1]))
           rest == req[1].todo \ {k}
       IN  IF PathConflict(table, k, newPath)
           THEN Throw(1, "DB_CONSTRAINT")
           ELSE /\ table' = UpdatePath(table, k, newPath, now)
                /\ req' = [req EXCEPT ![1].todo = rest,
                                      ![1].pc = IF rest = {} THEN "done" ELSE "rename_rows",
                                      ![1].code = IF rest = {} THEN OK ELSE NONE]
                /\ UNCHANGED <<now, dbType, univ, options>>

\* the concurrent request: writeFile(/a/b, data)
CallWriteChild ==
  /\ req[2].pc = "idle"
  /\ \E b \in Contents :
       req' = [req EXCEPT ![2] = Call("write_dir", "writeFile", pAB, FALSE, b, NONE)]
  /\ UNCHANGED <<table, now, dbType, univ, options>>

NextRen ==
  \/ RenameExplicitDirStats \/ RenameDestDirStats \/ RenameUpdateDir
  \/ RenameSelect \/ RenameUpdateRow
  \/ CallWriteChild \/ WriteFileDirStats(2) \/ WriteFileUpsert(2)

SpecRen == InitRen /\ [][NextRen]_vars

BothCompleted == req[1].pc = "done" /\ req[1].code = OK /\ req[2].pc = "done" /\ req[2].code = OK

\* C11: once the rename of /a/ to /d/ and the writeFile of /a/b have both
\* completed, the table does not hold the written content under both /a/b
\* and /d/b.
C11_OneName ==
  BothCompleted
    => ~(/\ pAB \in DOMAIN table /\ table[pAB].content = req[2].data
         /\ Path(<<<<"d">>, <<"b">>>>) \in DOMAIN table
         /\ table[Path(<<<<"d">>, <<"b">>>>)].content = req[2].data)

(***************************************************************************)
(* The HTTP layer (createHono) over KyselyFs.  A filesystem call that      *)
(* fails rejects with a VFSError; a handler that lets an error escape is   *)
(* answered by Hono's default error handler with 500.                      *)
(***************************************************************************)
\* new VFSError(message, {code, syscall, path}): the constructor passes a
\* message to Error and sets name; code, syscall and path are not stored
VFSError(code) == [name |-> "VFSError", message |-> code]

isErrnoException(error) == {"code", "syscall", "path"} \subseteq DOMAIN error

\* mapErrnoToStatus of copy_move.ts
mapErrnoToStatus(err) ==
  CASE err.code \in {"EACCES", "EPERM"} -> 403
    [] err.code = "EEXIST" -> 412
    [] err.code = "ENOENT" -> 404
    [] err.code \in {"ENOTDIR", "EISDIR", "ENOTEMPTY"} -> 409
    [] err.code = "EINVAL" -> 400
    [] err.code \in {"ENOSPC", "EFBIG"} -> 507
    [] OTHER -> 500

InternalServerError == 500

normalizeDavPath(pathname) ==
  LET p1 == IF StartsWith(pathname, <<SLASH>>) THEN pathname ELSE <<SLASH>> \o pathname
      p2 == IF p1 /= <<SLASH>> THEN removeSuffixSlash(normalizePathLike(p1)) ELSE p1
      p3 == IF StartsWith(p2, <<SLASH>>) THEN p2 ELSE <<SLASH>> \o p2
  IN  IF pathname = <<>> THEN <<SLASH>> ELSE p3

withTrailingSlash(pathname) ==
  IF pathname = <<SLASH>> THEN <<SLASH>> ELSE removeSuffixSlash(pathname) \o <<SLASH>>

\* the empty string where the code returns null: the caller tests the
\* result for truthiness only
getParentDavPath(pathname) ==
  LET normalized == normalizeDavPath(pathname)
      parent == dirname(normalized)
  IN  IF normalized = <<SLASH>> THEN <<>>
      ELSE IF parent = normalized THEN <<>> ELSE parent

joinDavPath(parentDir, childName, isDir) ==
  LET base == IF parentDir = <<SLASH>> THEN <<SLASH>> ELSE removeSuffixSlash(parentDir)
      combined == normalizePathLike(base \o <<SLASH>> \o childName)
  IN  IF isDir THEN withTrailingSlash(combined) ELSE normalizeDavPath(combined)

\* the outcome of a part of a copy: it went on (the table and the errors
\* collected so far) or an error escaped it
CopyState(thrown, t, errors) == [thrown |-> thrown, table |-> t, errors |-> errors]

CopyError(href, err) == [href |-> href, status |-> mapErrnoToStatus(err)]

RECURSIVE copyDirectoryRecursive(_, _, _, _, _, _, _)
RECURSIVE copyEntries(_, _, _, _, _, _, _, _)
\* the loop over the entries of readdir(sourceDir)
copyEntries(t, db, entries, sourceDir, destinationDir, nextDepth, errors, ts) ==
  IF entries = <<>> THEN CopyState(FALSE, t, errors)
  ELSE
    LET entry == Head(entries)
        childSource == joinDavPath(sourceDir, entry.name, entry.isDirectory)
        childDestination == joinDavPath(destinationDir, entry.name, entry.isDirectory)
        cp == copyFile(t, db, childSource, childDestination, ts)
        one == IF entry.isDirectory
               THEN copyDirectoryRecursive(t, db, childSource, childDestination, nextDepth, errors, ts)
               ELSE IF cp.code = OK THEN CopyState(FALSE, cp.table, errors)
               ELSE IF isErrnoException(VFSError(cp.code))
                 THEN CopyState(FALSE, cp.table,
                                Append(errors, CopyError(childDestination, VFSError(cp.code))))
               ELSE CopyState(TRUE, cp.table, errors)
    IN  IF one.thrown THEN one
        ELSE copyEntries(one.table, db, Tail(entries), sourceDir, destinationDir,
                         nextDepth, one.errors, ts)

\* A copy of a directory into one of its own descendants (COPY of / to
\* /a/b) finds its own output in readdir and descends without end; it
\* stops with an error that is no ErrnoException: the INSERT is rejected
\* when the key no longer fits the path column (varchar(4096), MaxPath
\* here), or, where the column width is not enforced, the runtime gives up.
\* depth is "0" or "Infinity", the two values the handlers pass; below
\* "Infinity" the next depth is "Infinity" again
copyDirectoryRecursive(t, db, source, destination, depth, errors, ts) ==
  LET sourceDir == withTrailingSlash(source)
      destinationDir == withTrailingSlash(destination)
      mk == mkdir(t, db, destinationDir, FALSE, ts)
      err == VFSError(mk.code)
  IN  IF Len(destinationDir) > MaxPath THEN CopyState(TRUE, t, errors)
      ELSE IF mk.code /= OK /\ ~isErrnoException(err) THEN CopyState(TRUE, t, errors)
      ELSE IF mk.code /= OK /\ err.code /= "EEXIST"
        THEN CopyState(FALSE, t, Append(errors, CopyError(destinationDir, err)))
      ELSE IF depth = "0" THEN CopyState(FALSE, mk.table, errors)
      ELSE copyEntries(mk.table, db, readdir(mk.table, db, sourceDir, FALSE),
                       sourceDir, destinationDir, depth, errors, ts)

\* the result of copyLikeOperation: {ok: false, status}, {ok: true,
\* destinationExisted, errors}, or an error that escapes (thrown)
CopyFailure(status, t) ==
  [thrown |-> FALSE, ok |-> FALSE, status |-> status, destinationExisted |-> FALSE,
   errors |-> <<>>, table |-> t]

CopySuccess(destinationExisted, errors, t) ==
  [thrown |-> FALSE, ok |-> TRUE, status |-> 0, destinationExisted |-> destinationExisted,
   errors |-> errors, table |-> t]

CopyThrown(t) ==
  [thrown |-> TRUE, ok |-> FALSE, status |-> InternalServerError, destinationExisted |-> FALSE,
   errors |-> <<>>, table |-> t]

\* a failed filesystem call inside try/catch: a failure with the given
\* status, or the error thrown again when it is no ErrnoException
Caught(code, status, t) ==
  IF isErrnoException(VFSError(code)) THEN CopyFailure(status, t) ELSE CopyThrown(t)

\* the same with status: mapErrnoToStatus(err)
CaughtMapped(code, t) ==
  IF isErrnoException(VFSError(code))
  THEN CopyFailure(mapErrnoToStatus(VFSError(code)), t) ELSE CopyThrown(t)

\* the end of copyLikeOperation: the copy itself, on the table t1 that the
\* removal of an existing destination left
dirCopied(destinationExisted, dir) ==
  IF dir.thrown THEN CopyThrown(dir.table)
  ELSE CopySuccess(destinationExisted, dir.errors, dir.table)

fileCopied(destinationExisted, file) ==
  IF file.code /= OK THEN CaughtMapped(file.code, file.table)
  ELSE CopySuccess(destinationExisted, <<>>, file.table)

performCopy(t1, db, sourceStat, normalizedSource, normalizedDestination, destinationExisted, depth, ts) ==
  IF sourceStat.isDirectory
  THEN dirCopied(destinationExisted,
                 copyDirectoryRecursive(t1, db, normalizedSource, normalizedDestination,
                                        depth, <<>>, ts))
  ELSE fileCopied(destinationExisted,
                  copyFile(t1, db, normalizedSource, normalizedDestination, ts))

\* fs.rm(normalizedDestination, {recursive: true, force: true}) of an
\* existing destination, then the copy
replaceDestination(removed, db, sourceStat, normalizedSource, normalizedDestination, depth, ts) ==
  IF removed.code /= OK THEN CaughtMapped(removed.code, removed.table)
  ELSE performCopy(removed.table, db, sourceStat, normalizedSource, normalizedDestination,
                   TRUE, depth, ts)

\* the stat of the destination (its catch throws again what is no
\* ErrnoException) and the Overwrite test
checkDestination(t, db, sourceStat, normalizedSource, normalizedDestination, destinationExists, depth, overwrite, ts) ==
  IF ~destinationExists /\ ~isErrnoException(VFSError("ENOENT")) THEN CopyThrown(t)
  ELSE IF destinationExists /\ ~overwrite THEN CopyFailure(412, t)
  ELSE IF destinationExists
    THEN replaceDestination(rm(t, db, normalizedDestination, TRUE, TRUE), db, sourceStat,
                            normalizedSource, normalizedDestination, depth, ts)
  ELSE performCopy(t, db, sourceStat, normalizedSource, normalizedDestination, FALSE, depth, ts)

\* the parent of the destination must be a directory, unless it is the root
checkParent(t, parentPath, parentStat, rest) ==
  IF parentPath /= <<>> /\ parentPath /= <<SLASH>> /\ ~parentStat.found
    THEN Caught("ENOENT", 409, t)
  ELSE IF parentPath /= <<>> /\ parentPath /= <<SLASH>> /\ ~parentStat.isDirectory
    THEN CopyFailure(409, t)
  ELSE rest

\* the tests on source and destination that come first
checkSource(t, sourceStat, normalizedSource, normalizedDestination, rest) ==
  IF ~sourceStat.found THEN Caught("ENOENT", 404, t)
  ELSE IF normalizedSource = normalizedDestination THEN CopyFailure(403, t)
  ELSE IF /\ sourceStat.isDirectory
          /\ normalizedSource /= <<SLASH>>
          /\ StartsWith(normalizedDestination, withTrailingSlash(normalizedSource))
    THEN CopyFailure(403, t)
  ELSE IF normalizedDestination = <<SLASH>> THEN CopyFailure(403, t)
  ELSE rest

\* the steps above on the normalized paths; sourceStat is the stat of the
\* source
copyNormalized(t, db, sourceStat, normalizedSource, normalizedDestination, parentPath, depth, overwrite, ts) ==
  checkSource(t, sourceStat, normalizedSource, normalizedDestination,
    checkParent(t, parentPath, stat(t, db, withTrailingSlash(parentPath)),
      checkDestination(t, db, sourceStat, normalizedSource, normalizedDestination,
                       stat(t, db, normalizedDestination).found, depth, overwrite, ts)))

\* providedSourceStat is the stat the MOVE handler provides, NoStats when
\* the operation is to stat the source itself
copyLikeOperation(t, db, sourcePath, destinationPath, depth, overwrite, providedSourceStat, ts) ==
  copyNormalized(t, db,
                 IF providedSourceStat.found THEN providedSourceStat ELSE stat(t, db, sourcePath),
                 normalizeDavPath(sourcePath), normalizeDavPath(destinationPath),
                 getParentDavPath(normalizeDavPath(destinationPath)),
                 depth, overwrite, ts)

(***************************************************************************)
(* The handlers of createHono.  Each yields the status it answers with     *)
(* and the table it leaves.                                                *)
(***************************************************************************)
Response(status, t) == [status |-> status, table |-> t]

\* app.put: writeFile(pathname, body), 201
httpPut(t, db, pathname, body, ts) ==
  LET w == writeFile(t, db, pathname, body, ts)
  IN  IF w.code = OK THEN Response(201, w.table) ELSE Response(InternalServerError, w.table)

\* app.delete: rm(pathname, {recursive: true, force: true}), 204
httpDelete(t, db, pathname) ==
  LET r == rm(t, db, pathname, TRUE, TRUE)
  IN  IF r.code = OK THEN Response(204, r.table) ELSE Response(InternalServerError, r.table)

\* app.on("MKCOL"): mkdir(pathname, {recursive: true}), 201
httpMkcol(t, db, pathname, ts) ==
  LET m == mkdir(t, db, pathname, TRUE, ts)
  IN  IF m.code = OK THEN Response(201, m.table) ELSE Response(InternalServerError, m.table)

\* app.on("PROPFIND"): 207 with one response for the target and one for
\* each entry of readdir; responses is their number
httpPropfind(t, db, pathname) ==
  LET st == stat(t, db, pathname)
      files == readdir(t, db, pathname, FALSE)
      childPath(i) == removeSuffixSlash(normalizePathLike(pathname)) \o <<SLASH>> \o files[i].name
      Multi(n) == [status |-> 207, table |-> t, responses |-> n]
      Plain(status) == [status |-> status, table |-> t, responses |-> 0]
  IN  IF ~st.found
      THEN IF isErrnoException(VFSError("ENOENT"))
           THEN (IF pathname = <<SLASH>> THEN Multi(1) ELSE Plain(404))
           ELSE Plain(InternalServerError)
      ELSE IF ~st.isDirectory THEN Multi(1)
      ELSE IF \E i \in 1..Len(files) : ~stat(t, db, childPath(i)).found
        THEN IF isErrnoException(VFSError("ENOENT"))
             THEN (IF pathname = <<SLASH>> THEN Multi(1) ELSE Plain(404))
             ELSE Plain(InternalServerError)
      ELSE Multi(1 + Len(files))

\* the Destination header: absent, or a URL of this or another origin
NoDestination == [present |-> FALSE, sameOrigin |-> FALSE, pathname |-> <<>>]

Destination(sameOrigin, pathname) ==
  [present |-> TRUE, sameOrigin |-> sameOrigin, pathname |-> pathname]

\* the answer to a finished copyLikeOperation; for an existing destination
\* the handlers end in `return c.status(204)`
copyStatus(result) ==
  IF result.thrown THEN InternalServerError
  ELSE IF ~result.ok THEN result.status
  ELSE IF Len(result.errors) > 0 THEN 207
  ELSE IF result.destinationExisted THEN 204 ELSE 201

\* the answer of both handlers to a copy that did not go through, and of
\* COPY to one that did
copyResponse(result) == Response(copyStatus(result), result.table)

\* app.on("COPY"): Depth is "0" or anything else (Infinity), Overwrite is
\* "F" or anything else (true)
httpCopy(t, db, pathname, dest, depthHeader, overwriteHeader, ts) ==
  IF ~dest.present THEN Response(400, t)
  ELSE IF ~dest.sameOrigin THEN Response(502, t)
  ELSE copyResponse(copyLikeOperation(t, db, pathname, dest.pathname,
                                      IF depthHeader = "0" THEN "0" ELSE "Infinity",
                                      overwriteHeader /= "F", NoStats, ts))

\* the end of MOVE: fs.rm of the source after a copy without errors
moveRemoved(result, removed) ==
  IF removed.code /= OK
  THEN Response(IF isErrnoException(VFSError(removed.code))
                THEN mapErrnoToStatus(VFSError(removed.code))
                ELSE InternalServerError, removed.table)
  ELSE Response(copyStatus(result), removed.table)

moveCopied(result, db, pathname, sourceStat) ==
  IF result.thrown \/ ~result.ok \/ Len(result.errors) > 0 THEN copyResponse(result)
  ELSE moveRemoved(result, rm(result.table, db, normalizeDavPath(pathname),
                              sourceStat.isDirectory, FALSE))

moveFrom(t, db, pathname, sourceStat, dest, depth, overwrite, ts) ==
  IF ~sourceStat.found
    THEN Response(IF isErrnoException(VFSError("ENOENT")) THEN 404 ELSE InternalServerError, t)
  ELSE IF normalizeDavPath(pathname) = <<SLASH>> THEN Response(403, t)
  ELSE IF sourceStat.isDirectory /\ depth = "0" THEN Response(400, t)
  ELSE moveCopied(copyLikeOperation(t, db, pathname, dest.pathname, depth, overwrite,
                                    sourceStat, ts),
                  db, pathname, sourceStat)

\* app.on("MOVE"): the copy, then rm of the source
httpMove(t, db, pathname, dest, depthHeader, overwriteHeader, ts) ==
  IF ~dest.present THEN Response(400, t)
  ELSE IF ~dest.sameOrigin THEN Response(502, t)
  ELSE moveFrom(t, db, pathname, stat(t, db, pathname), dest,
                IF depthHeader = "0" THEN "0" ELSE "Infinity", overwriteHeader /= "F", ts)

\* the answer to a GET: status, the etag header (NULL when not sent), the
\* body (NULL when there is none)
GetResponse(status, etag, body, t) ==
  [status |-> status, table |-> t, etag |-> etag, body |-> body]

\* readBufferOrStream: stat, then readFile (the contents of the model are
\* below THRESHOLD); NULL when one of them rejects
readBufferOrStream(t, db, pathname) ==
  IF ~stat(t, db, pathname).found THEN NULL ELSE readFile(t, pathname)

\* app.get (WebDAV): the file as an attachment
httpGet(t, db, pathname) ==
  LET body == readBufferOrStream(t, db, pathname)
  IN  IF body /= NULL THEN GetResponse(200, NULL, body, t)
      ELSE IF isErrnoException(VFSError("ENOENT")) THEN GetResponse(404, NULL, NULL, t)
      ELSE GetResponse(InternalServerError, NULL, NULL, t)

indexHtml == <<"i", "n", "d", "e", "x", ".", "h", "t", "m", "l">>

\* browserGet that answers 304 to every If-None-Match, equal or not
browserGet_anyIfNoneMatch(t, db, browser, pathname, ifNoneMatch, ifModifiedSince) ==
  LET filepath == IF pathname = <<SLASH>> THEN <<SLASH>> \o indexHtml
                  ELSE IF EndsWithSlash(pathname) THEN pathname \o indexHtml
                  ELSE pathname
      st == stat(t, db, filepath)
      etag == st.etag
      sent == IF etag /= UNDEFINED /\ etag /= <<>> THEN etag ELSE NULL
      body == readBufferOrStream(t, db, filepath)
  IN  IF ~st.found /\ ~isErrnoException(VFSError("ENOENT"))
        THEN GetResponse(InternalServerError, NULL, NULL, t)
      ELSE IF ~st.found \/ ~st.isFile
        THEN GetResponse(IF browser = "list" THEN 200 ELSE 404, NULL, NULL, t)
      ELSE IF ifNoneMatch /= NULL /\ ifNoneMatch /= <<>>
        THEN GetResponse(304, sent, NULL, t)
      ELSE IF (ifNoneMatch = NULL \/ ifNoneMatch = <<>>)
              /\ ifModifiedSince /= NULL /\ ifModifiedSince[1] >= st.mtimeMs
        THEN GetResponse(304, sent, NULL, t)
      ELSE IF body /= NULL THEN GetResponse(200, sent, body, t)
      ELSE IF isErrnoException(VFSError("ENOENT")) THEN GetResponse(404, sent, NULL, t)
      ELSE GetResponse(InternalServerError, sent, NULL, t)

\* app.get (browser feature), for a request that asks for HTML while
\* options.browser is "enabled" or "list".  ifNoneMatch and ifModifiedSince
\* are the header values, NULL when absent; times are in milliseconds
browserGet(t, db, browser, pathname, ifNoneMatch, ifModifiedSince) ==
  LET filepath == IF pathname = <<SLASH>> THEN <<SLASH>> \o indexHtml
                  ELSE IF EndsWithSlash(pathname) THEN pathname \o indexHtml
                  ELSE pathname
      st == stat(t, db, filepath)
      etag == st.etag
      sent == IF etag /= UNDEFINED /\ etag /= <<>> THEN etag ELSE NULL
      body == readBufferOrStream(t, db, filepath)
  IN  IF ~st.found /\ ~isErrnoException(VFSError("ENOENT"))
        THEN GetResponse(InternalServerError, NULL, NULL, t)
      ELSE IF ~st.found \/ ~st.isFile
        THEN GetResponse(IF browser = "list" THEN 200 ELSE 404, NULL, NULL, t)
      ELSE IF ifNoneMatch /= NULL /\ ifNoneMatch /= <<>> /\ ifNoneMatch = etag
        THEN GetResponse(304, sent, NULL, t)
      ELSE IF (ifNoneMatch = NULL \/ ifNoneMatch = <<>>)
              /\ ifModifiedSince /= NULL /\ ifModifiedSince[1] >= st.mtimeMs
        THEN GetResponse(304, sent, NULL, t)
      ELSE IF body /= NULL THEN GetResponse(200, sent, body, t)
      ELSE IF isErrnoException(VFSError("ENOENT")) THEN GetResponse(404, sent, NULL, t)
      ELSE GetResponse(InternalServerError, sent, NULL, t)

\* a GET is taken by the browser feature when the feature is on and the
\* request asks for HTML (Accept text/html or a Mozilla/ user agent)
takenByBrowser(opts, method, html) ==
  method = "GET" /\ opts.browser /= "disabled" /\ html

\* basicAuth is installed only `if (options.auth)`; it then asks the
\* predicate.  credentials: "none", "bad", "predicate" (the predicate
\* accepts them) or "env" (they equal WEDBAV_USERNAME / WEDBAV_PASSWORD)
rejectedByAuth(opts, credentials) == opts.auth /\ credentials /= "predicate"

\* the values an If-Modified-Since header takes
Since(ms) == <<ms>>

(***************************************************************************)
(* Requests.  A request passes the browser feature (GET only), then the    *)
(* auth middleware if it is installed, then the handler of its method.     *)
(***************************************************************************)
Unauthorized(t) == Response(401, t)

\* what the middleware chain answers to a request other than GET, given
\* the handler's answer r
serve(opts, credentials, r, t) ==
  IF rejectedByAuth(opts, credentials) THEN Unauthorized(t) ELSE r

serveGet(t, db, opts, credentials, html, pathname, ifNoneMatch, ifModifiedSince) ==
  IF takenByBrowser(opts, "GET", html)
  THEN browserGet(t, db, opts.browser, pathname, ifNoneMatch, ifModifiedSince)
  ELSE IF rejectedByAuth(opts, credentials) THEN GetResponse(401, NULL, NULL, t)
  ELSE httpGet(t, db, pathname)

HttpPaths(u) == BasePaths(u) \cup {<<SLASH>>}

Destinations(u) ==
  { Destination(TRUE, p) : p \in BasePaths(u) }
    \cup { NoDestination, Destination(FALSE, Path(<<<<"a">>>>)) }

DepthHeaders == {"0", "infinity"}

\* NONE: the header is absent
OverwriteHeaders == {"T", "F", NONE}

\* the credentials worth telling apart: without a configured gate, none
Credentials(opts) ==
  IF opts.auth \/ opts.env THEN {"none", "bad", "predicate", "env"} ELSE {"none"}

ETags == { NULL } \cup { createEtag(b) : b \in Contents }

InitHttp ==
  /\ table = <<>>
  /\ now = 1
  /\ dbType = "sqlite"
  /\ univ = "tree"
  /\ req = Idle
  /\ options = DefaultOptions

HttpPut ==
  \E p \in HttpPaths(univ), b \in Contents, cr \in Credentials(options) :
    Done(serve(options, cr, httpPut(table, dbType, p, b, now), table))

HttpDelete ==
  \E p \in HttpPaths(univ), cr \in Credentials(options) :
    Done(serve(options, cr, httpDelete(table, dbType, p), table))

HttpMkcol ==
  \E p \in HttpPaths(univ), cr \in Credentials(options) :
    Done(serve(options, cr, httpMkcol(table, dbType, p, now), table))

HttpPropfind ==
  \E p \in HttpPaths(univ), cr \in Credentials(options) :
    Done(serve(options, cr, httpPropfind(table, dbType, p), table))

HttpGet ==
  \E p \in HttpPaths(univ), cr \in Credentials(options), html \in BOOLEAN,
     inm \in ETags, ims \in {NULL, Since(now)} :
    Done(serveGet(table, dbType, options, cr, html, p, inm, ims))

HttpCopy ==
  \E p \in HttpPaths(univ), d \in Destinations(univ), depth \in DepthHeaders,
     ow \in OverwriteHeaders, cr \in Credentials(options) :
    Done(serve(options, cr, httpCopy(table, dbType, p, d, depth, ow, now), table))

HttpMove ==
  \E p \in HttpPaths(univ), d \in Destinations(univ), depth \in DepthHeaders,
     ow \in OverwriteHeaders, cr \in Credentials(options) :
    Done(serve(options, cr, httpMove(table, dbType, p, d, depth, ow, now), table))

\* app.on("PROPATCH"): the handler is registered under this method name
httpPropatch(t) == Response(501, t)

\* app.use("*") after the handlers: what no handler has answered
httpFallback(t) ==
  [status |-> 405, table |-> t, allow |-> "PROPFIND, MOVE, DELETE, GET, PUT, MKCOL"]

\* methods the router has no handler for, and the one spelt PROPATCH
OtherMethods == {"PROPPATCH", "PROPATCH", "LOCK", "UNLOCK"}

\* the answer to a request whose method is none of PROPFIND, DELETE, GET,
\* PUT, MKCOL, COPY, MOVE (and not the OPTIONS that cors() answers)
httpOther(method, t) ==
  IF method = "PROPATCH" THEN httpPropatch(t) ELSE httpFallback(t)

HttpOther ==
  \E method \in OtherMethods, cr \in Credentials(options) :
    Done(serve(options, cr, httpOther(method, table), table))

NextHttp ==
  \/ HttpPut \/ HttpDelete \/ HttpMkcol \/ HttpPropfind \/ HttpGet \/ HttpCopy \/ HttpMove
  \/ HttpOther

SpecHttp == InitHttp /\ [][NextHttp]_vars

(***************************************************************************)
(* Claims about the HTTP layer, for every table SpecHttp reaches.          *)
(***************************************************************************)
\* the destination's parent is the root or an existing directory
ParentIsDir(t, db, dest) ==
  \/ getParentDavPath(dest) \in {<<>>, <<SLASH>>}
  \/ /\ stat(t, db, withTrailingSlash(getParentDavPath(dest))).found
     /\ stat(t, db, withTrailingSlash(getParentDavPath(dest))).isDirectory

\* dest lies at or inside the directory src
Inside(src, dest) ==
  normalizeDavPath(src) = normalizeDavPath(dest)
    \/ StartsWith(normalizeDavPath(dest), withTrailingSlash(normalizeDavPath(src)))

\* the keys of the file rows below the directory src
FilesBelow(t, src) ==
  { k \in DOMAIN t : StartsWith(k, withTrailingSlash(src)) /\ ~EndsWithSlash(k) }

\* every file src/r has a row dest/r with the same content, size and ETag
SameTree(before, after, src, dest) ==
  \A k \in FilesBelow(before, src) :
    LET r == SubSeq(k, Len(withTrailingSlash(src)) + 1, Len(k))
        k2 == withTrailingSlash(dest) \o r
    IN  /\ k2 \in DOMAIN after
        /\ after[k2].content = before[k].content
        /\ after[k2].size = before[k].size
        /\ after[k2].etag = before[k].etag

\* C12: COPY of a directory with Depth infinity to a destination that does
\* not exist, whose parent is the root or an existing directory, answers
\* 201, and afterwards every file src/r has a row dest/r with the same
\* content, size and ETag.
C12_CopyDirectory ==
  \A src \in BasePaths(univ), dest \in BasePaths(univ), ow \in OverwriteHeaders :
    LET r == httpCopy(table, dbType, src, Destination(TRUE, dest), "infinity", ow, now)
    IN  /\ stat(table, dbType, src).found /\ stat(table, dbType, src).isDirectory
        /\ ~stat(table, dbType, dest).found
        /\ ~Inside(src, dest)
        /\ ParentIsDir(table, dbType, dest)
        => r.status = 201 /\ SameTree(table, r.table, src, dest)

Methods == {"COPY", "MOVE"}

\* the answer to a COPY or MOVE of src to dest on this server
copyOrMove(method, t, db, src, dest, depthHeader, overwriteHeader, ts) ==
  IF method = "COPY"
  THEN httpCopy(t, db, src, Destination(TRUE, dest), depthHeader, overwriteHeader, ts)
  ELSE httpMove(t, db, src, Destination(TRUE, dest), depthHeader, overwriteHeader, ts)

\* the request is rejected for its source before the destination counts:
\* source missing, same resource, a directory into itself, and for MOVE a
\* directory with Depth: 0
RejectedEarlier(method, t, db, src, dest, depthHeader) ==
  \/ ~stat(t, db, src).found
  \/ normalizeDavPath(src) = normalizeDavPath(dest)
  \/ stat(t, db, src).isDirectory /\ Inside(src, dest)
  \/ method = "MOVE" /\ stat(t, db, src).isDirectory /\ depthHeader = "0"

\* C13: a COPY or MOVE with Overwrite: F whose destination exists (file,
\* explicit or implicit directory) answers 412 and changes no row; with
\* the header absent the request is treated as Overwrite: T (no 412).
C13_OverwriteF ==
  \A method \in Methods, src \in BasePaths(univ), dest \in BasePaths(univ),
     depth \in DepthHeaders :
    /\ ~RejectedEarlier(method, table, dbType, src, dest, depth)
    /\ stat(table, dbType, dest).found
    => /\ copyOrMove(method, table, dbType, src, dest, depth, "F", now).status = 412
       /\ copyOrMove(method, table, dbType, src, dest, depth, "F", now).table = table
       /\ copyOrMove(method, table, dbType, src, dest, depth, NONE, now).status /= 412

\* src is a directory of the table: the row src/ exists, or some key
\* begins with src/
DirectoryOfTable(t, src) == HasDirRow(t, src) \/ HasRowUnder(t, src)

\* C14: a COPY or MOVE whose source is a directory and whose normalized
\* destination begins with source + "/", or whose source exists and equals
\* its destination after normalization, answers 403 and changes no row
\* (MOVE of a directory with Depth: 0, answered 400, set aside).
C14_SelfContainment ==
  \A method \in Methods, src \in BasePaths(univ), dest \in BasePaths(univ),
     ow \in OverwriteHeaders :
    LET r == copyOrMove(method, table, dbType, src, dest, "infinity", ow, now)
    IN  \/ /\ DirectoryOfTable(table, src)
           /\ StartsWith(normalizeDavPath(dest), normalizeDavPath(src) \o <<SLASH>>)
        \/ /\ HasFileRow(table, src) \/ DirectoryOfTable(table, src)
           /\ normalizeDavPath(src) = normalizeDavPath(dest)
        => r.status = 403 /\ r.table = table

\* the destination holds what the source held: the file's content, or for
\* a directory every file below it
Moved(before, after, src, dest) ==
  /\ HasFileRow(before, src)
       => HasFileRow(after, dest) /\ after[dest].content = before[src].content
  /\ ~HasFileRow(before, src) => SameTree(before, after, src, dest)

\* C15: after a MOVE of an existing file or directory that answers 201 or
\* 204, stat(source) finds nothing, no row is left at or under the source
\* and the destination holds what the source held; MOVE of / answers 403,
\* MOVE of a directory with Depth: 0 answers 400.
C15_Move ==
  /\ \A src \in BasePaths(univ), dest \in BasePaths(univ), depth \in DepthHeaders,
        ow \in OverwriteHeaders :
       LET r == httpMove(table, dbType, src, Destination(TRUE, dest), depth, ow, now)
       IN  /\ stat(table, dbType, src).found /\ r.status \in {201, 204}
               => /\ ~stat(r.table, dbType, src).found
                  /\ ~HasFileRow(r.table, src)
                  /\ ~HasDirRow(r.table, src)
                  /\ ~HasRowUnder(r.table, src)
                  /\ Moved(table, r.table, src, dest)
           /\ stat(table, dbType, src).found /\ stat(table, dbType, src).isDirectory
               => httpMove(table, dbType, src, Destination(TRUE, dest), "0", ow, now).status = 400
  /\ \A dest \in BasePaths(univ), depth \in DepthHeaders, ow \in OverwriteHeaders :
       httpMove(table, dbType, <<SLASH>>, Destination(TRUE, dest), depth, ow, now).status = 403

\* C16: a COPY or MOVE whose destination's parent does not exist or is not
\* a directory answers 409 and changes no row; for a destination directly
\* under the root the parent is not looked at (never 409).
C16_ParentConflict ==
  \A method \in Methods, src \in BasePaths(univ), dest \in BasePaths(univ),
     depth \in DepthHeaders, ow \in OverwriteHeaders :
    LET r == copyOrMove(method, table, dbType, src, dest, depth, ow, now)
    IN  ~RejectedEarlier(method, table, dbType, src, dest, depth)
          => /\ ~ParentIsDir(table, dbType, dest) => r.status = 409 /\ r.table = table
             /\ getParentDavPath(dest) = <<SLASH>> => r.status /= 409

\* the first segment of a relative path
FirstSegment(s) ==
  LET n == CHOOSE n \in 0..Len(s) :
             (n = Len(s) \/ s[n + 1] = SLASH) /\ \A i \in 1..n : s[i] /= SLASH
  IN  SubSeq(s, 1, n)

\* the names of the immediate children of the directory p, from the keys
ChildNames(t, p) ==
  { FirstSegment(SubSeq(k, Len(withTrailingSlash(p)) + 1, Len(k))) :
      k \in { x \in DOMAIN t : StartsWith(x, withTrailingSlash(p)) /\ x /= withTrailingSlash(p) } }

\* C17: PROPFIND on a path at which nothing exists answers 404, except
\* that PROPFIND on / always answers 207 (with no response but the root's
\* when the table has no rows); PROPFIND on an existing directory answers
\* 207 with one response for the target and one for each immediate child.
C17_Propfind ==
  \A p \in HttpPaths(univ) :
    LET r == httpPropfind(table, dbType, p)
    IN  /\ p = <<SLASH>> => r.status = 207
        /\ p /= <<SLASH>> /\ ~HasFileRow(table, p) /\ ~DirectoryOfTable(table, p)
             => r.status = 404
        /\ p /= <<SLASH>> /\ ~HasFileRow(table, p) /\ DirectoryOfTable(table, p)
             => r.status = 207 /\ r.responses = 1 + Cardinality(ChildNames(table, p))

\* C18: MKCOL on a path at which nothing exists answers 201 and creates
\* the explicit directory row; MKCOL on a path that exists (file, explicit
\* or implicit directory) answers 405, 409 or 400 and leaves the table
\* unchanged.
C18_Mkcol ==
  \A p \in BasePaths(univ) :
    LET r == httpMkcol(table, dbType, p, now)
    IN  IF HasFileRow(table, p) \/ DirectoryOfTable(table, p)
        THEN r.status \in {405, 409, 400} /\ r.table = table
        ELSE r.status = 201 /\ HasDirRow(r.table, p)

(***************************************************************************)
(* C19: the auth gate.  The server is created with one of the              *)
(* configurations a deployment can have: an auth predicate in the options  *)
(* or not, WEDBAV_USERNAME / WEDBAV_PASSWORD in the environment or not,    *)
(* the browser feature on or off.  startServerFromFS passes the options on *)
(* and fills in only `browser`.                                            *)
(***************************************************************************)
Configurations ==
  [auth : BOOLEAN, env : BOOLEAN, browser : {"disabled", "enabled"}]

InitAuth ==
  /\ table = <<>>
  /\ now = 1
  /\ dbType = "sqlite"
  /\ univ = "tree"
  /\ req = Idle
  /\ options \in Configurations

NextAuth == HttpPut \/ HttpDelete \/ HttpMkcol \/ HttpPropfind \/ HttpGet

SpecAuth == InitAuth /\ [][NextAuth]_vars

\* the gate is configured: by a predicate, or by the environment pair
Configured(opts) == opts.auth \/ opts.env

\* the credentials the configured gate is to accept
Valid(opts, credentials) ==
  \/ opts.auth /\ credentials = "predicate"
  \/ ~opts.auth /\ opts.env /\ credentials = "env"

\* C19: when the auth gate is configured (by a predicate or by the
\* environment pair), every request outside the browser GET that lacks
\* valid credentials is answered 401 and leaves the table as it is.
C19_AuthGate ==
  Configured(options) =>
    \A cr \in Credentials(options), p \in HttpPaths(univ) :
      ~Valid(options, cr) =>
        /\ \A b \in Contents :
             /\ serve(options, cr, httpPut(table, dbType, p, b, now), table).status = 401
             /\ serve(options, cr, httpPut(table, dbType, p, b, now), table).table = table
        /\ serve(options, cr, httpDelete(table, dbType, p), table).status = 401
        /\ serve(options, cr, httpDelete(table, dbType, p), table).table = table
        /\ serve(options, cr, httpMkcol(table, dbType, p, now), table).status = 401
        /\ serve(options, cr, httpMkcol(table, dbType, p, now), table).table = table
        /\ serve(options, cr, httpPropfind(table, dbType, p), table).status = 401
        /\ serveGet(table, dbType, options, cr, FALSE, p, NULL, NULL).status = 401

(***************************************************************************)
(* C20: conditional GET.  The server runs with the browser feature on      *)
(* ("enabled" or "list"); requests are PUT, DELETE and GET, with and       *)
(* without an HTML-accepting user agent.                                   *)
(***************************************************************************)
InitGet ==
  /\ table = <<>>
  /\ now = 1
  /\ dbType = "sqlite"
  /\ univ = "tree"
  /\ req = Idle
  /\ options \in { [DefaultOptions EXCEPT !.browser = b] : b \in {"enabled", "list"} }

NextGet == HttpPut \/ HttpDelete \/ HttpGet

SpecGet == InitGet /\ [][NextGet]_vars

\* what the claim says of a GET of the file p, for a request that asks for
\* HTML (html) or not
ConditionalGet(html, p) ==
  LET content == table[p].content
      current == createEtag(content)
      plain == serveGet(table, dbType, options, "none", html, p, NULL, NULL)
  IN  /\ plain.status = 200 /\ plain.etag = current /\ plain.body = content
      /\ serveGet(table, dbType, options, "none", html, p, plain.etag, NULL).status = 304
      /\ \A inm \in ETags \ {NULL}, ims \in {NULL, Since(now)} :
           LET r == serveGet(table, dbType, options, "none", html, p, inm, ims)
           IN  /\ r.status = 304 <=> inm = current
               /\ r.status /= 304 => r.status = 200 /\ r.body = content /\ r.etag = current
      /\ \A b \in Contents \ {content} :
           LET put == httpPut(table, dbType, p, b, now)
               r == serveGet(put.table, dbType, options, "none", html, p, current, NULL)
           IN  put.status = 201 /\ r.status = 200 /\ r.body = b /\ r.etag = createEtag(b)

\* C20 as stated: a GET of a file answers 200 with the file's ETag; with
\* If-None-Match it answers 304 exactly when the value is the ETag of the
\* stored content; after a PUT that changes the content the old ETag
\* yields 200 with the new body.  For every GET, from a browser or not.
C20_Get ==
  \A p \in BasePaths(univ), html \in BOOLEAN :
    HasFileRow(table, p) => ConditionalGet(html, p)

\* C20 for the GET that the browser feature serves (feature "enabled" or
\* "list", request asking for HTML): 200 with the file's ETag; with
\* If-None-Match 304 exactly when the value is the ETag of the stored
\* content; after a PUT that changes the content the old ETag yields 200
\* with the new body.
C20_BrowserGet ==
  \A p \in BasePaths(univ) :
    takenByBrowser(options, "GET", TRUE) /\ HasFileRow(table, p) => ConditionalGet(TRUE, p)

\* a stored file with content, whose ETag yields 304 and another ETag 200
C20_Witness ==
  \E p \in BasePaths(univ) :
    /\ takenByBrowser(options, "GET", TRUE)
    /\ HasFileRow(table, p)
    /\ table[p].content /= <<>>
    /\ serveGet(table, dbType, options, "none", TRUE, p, table[p].etag, NULL).status = 304
    /\ serveGet(table, dbType, options, "none", TRUE, p, createEtag(<<>>), NULL).status = 200

(***************************************************************************)
(* C21: the errors of the VFS, as the HTTP layer sees them.                *)
(***************************************************************************)
\* the codes KyselyFs passes to new VFSError
ErrnoCodes == {"ENOENT", "EEXIST", "EISDIR", "ENOTDIR", "ENOTEMPTY", "EINVAL"}

\* C21: every error of the VFS exposes code, syscall and path, so that
\* isErrnoException recognises it; a stat of a missing path by GET or by
\* the copy/move planner is answered 404, not 500.
C21_ErrnoErrors ==
  /\ \A code \in ErrnoCodes : isErrnoException(VFSError(code))
  /\ \A p \in BasePaths(univ), dest \in BasePaths(univ), method \in Methods :
       ~stat(table, dbType, p).found
         => /\ httpGet(table, dbType, p).status = 404
            /\ copyOrMove(method, table, dbType, p, dest, "infinity", NONE, now).status = 404

(***************************************************************************)
(* C22: createReadStream.  The table holds at most the row /a (a file of   *)
(* up to MaxLen bytes, or the explicit directory /a/) and is not written   *)
(* while the stream is read.  req is the stream: the fileKey and offset of *)
(* the closure, the size the consumer requests on each read, the bytes     *)
(* pushed so far, the number of queries issued and how many of them        *)
(* returned no bytes.  The model follows the stream up to MaxQueries       *)
(* queries.                                                                *)
(***************************************************************************)
StreamContents ==
  UNION { [1..n -> 1..MaxByte] : n \in 0..MaxLen }

StreamTables ==
  { <<>> , Put(<<>>, Path(<<<<"a">>>>) \o <<SLASH>>, DirRow(1)) }
    \cup { Put(<<>>, Path(<<<<"a">>>>), FileRow(1, 1, c)) : c \in StreamContents }

StreamPaths == { Path(<<<<"a">>>>), Path(<<<<"a">>>>) \o <<SLASH>>, Path(<<<<"a">>, <<"b">>>>) }

InitStream ==
  /\ table \in StreamTables
  /\ now = 1
  /\ dbType = "sqlite"
  /\ univ = "tree"
  /\ req = Idle
  /\ options = DefaultOptions

\* substr(content, offset, size) of SQL: the bytes from the 1-based offset,
\* at most size of them; none past the end; NULL of NULL
substr(content, offset, size) ==
  IF content = NULL THEN NULL
  ELSE SubSeq(content, offset, IF offset + size - 1 < Len(content)
                               THEN offset + size - 1 ELSE Len(content))

\* createReadStream(path): the closure; no query yet
CreateReadStream ==
  /\ req = Idle
  /\ \E p \in StreamPaths, size \in 1..MaxChunk :
       req' = [pc |-> "reading", fileKey |-> removeSuffixSlash(normalizePathLike(p)),
               offset |-> 1, size |-> size, pushed |-> <<>>, queries |-> 0, empties |-> 0]
  /\ UNCHANGED <<table, now, dbType, univ, options>>

\* read(size): one query.  `!part || !part.content` holds when there is
\* no row or the content is NULL; a blob without bytes is an object, and
\* is pushed like any other chunk
StreamRead ==
  /\ req.pc = "reading"
  /\ req.queries < MaxQueries
  /\ LET part == IF req.fileKey \in DOMAIN table
                 THEN substr(table[req.fileKey].content, req.offset, req.size)
                 ELSE NULL
     IN  IF part = NULL
         THEN req' = [req EXCEPT !.pc = "ended", !.queries = @ + 1, !.empties = @ + 1]
         ELSE req' = [req EXCEPT !.pushed = @ \o part, !.offset = @ + req.size,
                                 !.queries = @ + 1,
                                 !.empties = IF part = <<>> THEN @ + 1 ELSE @]
  /\ UNCHANGED <<table, now, dbType, univ, options>>

NextStream == CreateReadStream \/ StreamRead

SpecStream == InitStream /\ [][NextStream]_vars

\* C22: the stream of a file queries at the offsets 1, 1+s, 1+2s, ...;
\* once a query has returned no bytes the stream has ended, no further
\* query was issued, and the bytes pushed are readFile(p).
C22_StreamFinite ==
  req.pc \in {"reading", "ended"} /\ req.fileKey \in DOMAIN table
    => /\ req.pc = "reading" => req.offset = 1 + req.queries * req.size
       /\ req.empties >= 1
            => /\ req.pc = "ended"
               /\ req.empties = 1
               /\ req.pushed = readFile(table, req.fileKey)

(***************************************************************************)
(* C23: non-recursive readdir against the immediate children read off the  *)
(* keys of the table.                                                      *)
(***************************************************************************)
\* the rows below the directory p, as paths relative to p/
RelativeBelow(t, p) ==
  { SubSeq(k, Len(withTrailingSlash(p)) + 1, Len(k)) :
      k \in { x \in DOMAIN t : StartsWith(x, withTrailingSlash(p)) /\ x /= withTrailingSlash(p) } }

\* names of the immediate child files: relative paths without "/"
ChildFiles(t, p) == { r \in RelativeBelow(t, p) : ~Includes(r, SLASH) }

\* names of the immediate child directories: first segments of the
\* relative paths that hold a "/" (deeper rows, explicit child rows)
ChildDirs(t, p) == { FirstSegment(r) : r \in { x \in RelativeBelow(t, p) : Includes(x, SLASH) } }

Sorted(names) == \A i \in 1..Len(names), j \in 1..Len(names) : i < j => StrLess(names[i], names[j])

\* C23: readdir(p) without recursive returns exactly the immediate
\* children of p, each name once: a file entry for each immediate file, a
\* directory entry for each first segment of a deeper row or explicit child
\* directory row; directories first, then files, each group in order.
C23_Readdir ==
  \A p \in BasePaths(univ) \cup {<<SLASH>>} :
    LET entries == readdir(table, dbType, p, FALSE)
        dirs == SelectSeq(entries, LAMBDA e : e.isDirectory)
        files == SelectSeq(entries, LAMBDA e : e.isFile)
        names(es) == [i \in 1..Len(es) |-> es[i].name]
    IN  /\ entries = dirs \o files
        /\ { e.name : e \in { dirs[i] : i \in 1..Len(dirs) } } = ChildDirs(table, p)
        /\ { e.name : e \in { files[i] : i \in 1..Len(files) } } = ChildFiles(table, p)
        /\ Sorted(names(dirs)) /\ Sorted(names(files))
        /\ Len(entries) = Cardinality(ChildDirs(table, p) \cup ChildFiles(table, p))

\* C24: PROPPATCH is answered 501; a method outside the dispatch table,
\* LOCK and UNLOCK among them, is answered 405 with an Allow header;
\* neither changes the table.
C24_OtherMethods ==
  /\ httpOther("PROPPATCH", table).status = 501
  /\ httpOther("PROPPATCH", table).table = table
  /\ \A method \in {"LOCK", "UNLOCK"} :
       /\ httpOther(method, table).status = 405
       /\ "allow" \in DOMAIN httpOther(method, table)
       /\ httpOther(method, table).table = table

\* C25: rmdir(p) without recursive fails ENOTDIR when p is a file, fails
\* ENOTEMPTY exactly when some row lies under p/ (the row p/ itself not
\* counted), and otherwise succeeds and deletes the row p/ if there is one.
C25_Rmdir ==
  \A p \in BasePaths(univ) :
    LET r == rmdir(table, dbType, p, FALSE)
    IN  IF HasFileRow(table, p) THEN r.code = "ENOTDIR" /\ r.table = table
        ELSE IF HasRowUnder(table, p) THEN r.code = "ENOTEMPTY" /\ r.table = table
        ELSE r.code = OK /\ r.table = Delete(table, {DirKeyOf(p)})

\* C26: mkdir(p) without recursive, on a path at which nothing exists,
\* fails ENOENT exactly when p's parent directory does not exist (the root
\* always exists); otherwise it inserts the single row p/ with size 0,
\* empty etag and NULL content and changes no other row.
C26_MkdirParent ==
  \A p \in BasePaths(univ) :
    LET r == mkdir(table, dbType, p, FALSE, now)
        parent == dirname(p)
    IN  ~HasFileRow(table, p) /\ ~DirectoryOfTable(table, p)
          => IF parent = <<SLASH>> \/ DirectoryOfTable(table, parent)
             THEN r.code = OK /\ r.table = Put(table, DirKeyOf(p), DirRow(now))
             ELSE r.code = "ENOENT" /\ r.table = table

\* C27: writeFile(p, bytes) fails EISDIR when the explicit directory row
\* p/ exists, leaving the table unchanged; otherwise it upserts the single
\* file row p: content, size and etag of the bytes, modified_at the time of
\* the write, created_at kept when the row existed; no other row changes.
\* The write happens at now + 1, after every row of the table was written.
C27_WriteFile ==
  \A p \in Paths(univ), b \in Contents :
    LET key == removeSuffixSlash(normalizePathLike(p))
        r == writeFile(table, dbType, p, b, now + 1)
    IN  IF key \o <<SLASH>> \in DOMAIN table
        THEN r.code = "EISDIR" /\ r.table = table
        ELSE /\ r.code = OK
             /\ DOMAIN r.table = DOMAIN table \cup {key}
             /\ \A k \in DOMAIN table \ {key} : r.table[k] = table[k]
             /\ r.table[key].content = b
             /\ r.table[key].size = Len(b)
             /\ r.table[key].etag = createEtag(b)
             /\ r.table[key].modified_at = now + 1
             /\ r.table[key].created_at =
                  IF key \in DOMAIN table THEN table[key].created_at ELSE now + 1

\* a table with a file row that a write changes and an explicit directory
\* row that refuses the write
C27_Witness ==
  \E p \in BasePaths(univ), q \in BasePaths(univ) :
    /\ HasFileRow(table, p) /\ table[p].content = <<>>
    /\ writeFile(table, dbType, p, <<1>>, now + 1).table[p].created_at = table[p].created_at
    /\ writeFile(table, dbType, p, <<1>>, now + 1).table[p].modified_at > table[p].modified_at
    /\ HasDirRow(table, q)
    /\ writeFile(table, dbType, q, <<1>>, now + 1).code = "EISDIR"

\* C28: copyFile(src, dest) fails EINVAL when src is a directory key,
\* EISDIR when dest ends with / or is an explicit or implicit directory,
\* ENOENT when no file row src exists, the table unchanged each time; on
\* success the row dest has the size, content and etag of src and the row
\* src is unchanged.  The copy happens at now + 1.
C28_CopyFile ==
  \A src \in Paths(univ), dest \in Paths(univ) :
    LET srcKey == normalizePathLike(src)
        destKey == normalizePathLike(dest)
        r == copyFile(table, dbType, src, dest, now + 1)
    IN  IF EndsWithSlash(srcKey)
          THEN r.code = "EINVAL" /\ r.table = table
        ELSE IF EndsWithSlash(destKey) \/ DirectoryOfTable(table, destKey)
          THEN r.code = "EISDIR" /\ r.table = table
        ELSE IF srcKey \notin DOMAIN table
          THEN r.code = "ENOENT" /\ r.table = table
        ELSE /\ r.code = OK
             /\ destKey \in DOMAIN r.table
             /\ r.table[destKey].size = table[srcKey].size
             /\ r.table[destKey].content = table[srcKey].content
             /\ r.table[destKey].etag = table[srcKey].etag
             /\ r.table[srcKey] = table[srcKey]

\* the rows of t at or under the directory key d
RowsUnderKey(t, d) == { k \in DOMAIN t : StartsWith(k, d) }

\* the key k of old/ carried over to new/
Rebased(k, oldDirKey, newDirKey) ==
  newDirKey \o SubSeq(k, Len(oldDirKey) + 1, Len(k))

\* C29: a directory rename(old/, new/), where nothing exists at or under
\* new, rewrites every row: no key equals or begins with old/ afterwards,
\* every former row old/r is the row new/r with the same content, size and
\* etag, the number of rows is unchanged and the rows outside old/ are
\* untouched; it fails EEXIST when the explicit rows old/ and new/ both
\* exist.  The statements of one rename run without interference.
C29_RenameDirectory ==
  \A old \in BasePaths(univ), new \in BasePaths(univ) :
    LET oldDirKey == DirKeyOf(old)
        newDirKey == DirKeyOf(new)
    IN  \A r \in rename(table, dbType, oldDirKey, newDirKey, now + 1) :
          /\ HasDirRow(table, old) /\ HasDirRow(table, new)
               => r.code = "EEXIST" /\ r.table = table
          /\ ~HasFileRow(table, new) /\ RowsUnderKey(table, newDirKey) = {}
               => /\ r.code = OK
                  /\ RowsUnderKey(r.table, oldDirKey) = {}
                  /\ \A k \in RowsUnderKey(table, oldDirKey) :
                       LET k2 == Rebased(k, oldDirKey, newDirKey)
                       IN  /\ k2 \in DOMAIN r.table
                           /\ r.table[k2].content = table[k].content
                           /\ r.table[k2].size = table[k].size
                           /\ r.table[k2].etag = table[k].etag
                  /\ Cardinality(DOMAIN r.table) = Cardinality(DOMAIN table)
                  /\ \A k \in DOMAIN table \ RowsUnderKey(table, oldDirKey) :
                       k \in DOMAIN r.table /\ r.table[k] = table[k]

\* the keys under the directory key d, relative to d
RelativeKeys(t, d) ==
  { SubSeq(k, Len(d) + 1, Len(k)) : k \in RowsUnderKey(t, d) \ {d} }

\* the destination holds what the source held and nothing else: a file
\* with the source's content and no row under it, or a directory whose
\* rows are the source's rows
Replaced(before, after, db, src, dest) ==
  IF stat(before, db, src).isDirectory
  THEN /\ ~HasFileRow(after, dest)
       /\ RelativeKeys(after, DirKeyOf(dest)) = RelativeKeys(before, DirKeyOf(src))
       /\ SameTree(before, after, src, dest)
  ELSE /\ HasFileRow(after, dest)
       /\ after[dest].content = before[src].content
       /\ RowsUnderKey(after, DirKeyOf(dest)) = {}

\* C30: a COPY or MOVE with Overwrite: T onto an existing destination
\* answers 204, and afterwards the destination subtree equals the source
\* subtree: no row of the old destination without a counterpart in the
\* source survives; 201 is answered only when the destination did not
\* exist before.
C30_Overwrite ==
  \A method \in Methods, src \in BasePaths(univ), dest \in BasePaths(univ) :
    LET r == copyOrMove(method, table, dbType, src, dest, "infinity", "T", now)
    IN  /\ r.status = 201 => ~stat(table, dbType, dest).found
        /\ /\ ~RejectedEarlier(method, table, dbType, src, dest, "infinity")
           /\ stat(table, dbType, dest).found
           /\ ParentIsDir(table, dbType, dest)
           => r.status = 204 /\ Replaced(table, r.table, dbType, src, dest)

\* the hrefs of the per-resource errors of a copy
ErrorHrefs(errors) == { errors[i].href : i \in 1..Len(errors) }

\* C31: during a recursive directory copy a filesystem error on one
\* resource does not abort the operation: nothing is thrown, a destination
\* directory that cannot be created is recorded as a per-resource error,
\* the planner succeeds with the errors it collected and the answer is 207
\* when there are any; with Depth: 0 no row but the destination directory
\* is created.
C31_PartialCopy ==
  \A src \in BasePaths(univ), dest \in BasePaths(univ) :
    LET full == copyDirectoryRecursive(table, dbType, src, dest, "Infinity", <<>>, now)
        top == copyDirectoryRecursive(table, dbType, src, dest, "0", <<>>, now)
        mk == mkdir(table, dbType, withTrailingSlash(dest), FALSE, now)
    IN  /\ stat(table, dbType, src).found
        /\ stat(table, dbType, src).isDirectory
        /\ ~Inside(src, dest)
        => /\ ~full.thrown
           /\ ~top.thrown
           /\ mk.code \notin {OK, "EEXIST"}
                => withTrailingSlash(dest) \in ErrorHrefs(full.errors)
           /\ Len(full.errors) > 0 => copyStatus(dirCopied(FALSE, full)) = 207
           /\ DOMAIN top.table \ DOMAIN table \subseteq {withTrailingSlash(dest)}

\* C32: in every reachable table every row whose key ends with / has size
\* 0, an empty etag and NULL content, and every other row has content
\* that is not NULL, its size the length of the content and its etag the
\* quoted sha-256 of the content.
C32_RowShape ==
  \A k \in DOMAIN table :
    IF EndsWithSlash(k)
    THEN table[k].size = 0 /\ table[k].etag = <<>> /\ table[k].content = NULL
    ELSE /\ table[k].content /= NULL
         /\ table[k].size = Len(table[k].content)
         /\ table[k].etag = createEtag(table[k].content)

\* the path PROPFIND stats for the entry name of the directory d
ChildPath(d, name) == removeSuffixSlash(normalizePathLike(d)) \o <<SLASH>> \o name

\* C33: in every reachable table every entry e of readdir(d,
\* {withFileTypes: true}) names something that exists with the same kind:
\* stat(d + "/" + e.name) succeeds with isDirectory() as e.isDirectory(),
\* and no name is listed twice.
C33_ReaddirStat ==
  \A d \in BasePaths(univ) \cup {<<SLASH>>} :
    LET entries == readdir(table, dbType, d, FALSE)
    IN  /\ \A i \in 1..Len(entries) :
             /\ stat(table, dbType, ChildPath(d, entries[i].name)).found
             /\ stat(table, dbType, ChildPath(d, entries[i].name)).isDirectory
                  = entries[i].isDirectory
        /\ \A i \in 1..Len(entries), j \in 1..Len(entries) :
             entries[i].name = entries[j].name => i = j

\* the keys of the rows at or under the path p
SubtreeKeys(t, p) == { k \in DOMAIN t : k = p \/ StartsWith(k, DirKeyOf(p)) }

\* every row at or under p before is there afterwards with its content
SubtreeKept(before, after, p) ==
  \A k \in SubtreeKeys(before, p) :
    k \in DOMAIN after /\ after[k].content = before[k].content

\* C34: whenever a MOVE answers with a failure status or with 207, every
\* row that existed at or under the source before the request still exists
\* with unchanged content.
C34_MoveKeepsSource ==
  \A src \in BasePaths(univ), dest \in BasePaths(univ),
     depth \in DepthHeaders, ow \in OverwriteHeaders :
    LET r == httpMove(table, dbType, src, Destination(TRUE, dest), depth, ow, now)
    IN  r.status >= 400 \/ r.status = 207 => SubtreeKept(table, r.table, src)

\* C35: a COPY, whatever its outcome and for every source, destination,
\* Depth and Overwrite, leaves every row at or under the source as it was.
C35_CopyKeepsSource ==
  \A src \in BasePaths(univ), dest \in BasePaths(univ),
     depth \in DepthHeaders, ow \in OverwriteHeaders :
    LET r == httpCopy(table, dbType, src, Destination(TRUE, dest), depth, ow, now)
    IN  \A k \in SubtreeKeys(table, src) : k \in DOMAIN r.table /\ r.table[k] = table[k]

\* the directories at or under the directory key d, relative to d: the
\* prefixes, ending with /, of the keys under d
RelativeDirs(t, d) ==
  UNION { { SubSeq(rel, 1, i) : i \in { j \in 1..Len(rel) : rel[j] = SLASH } }
            : rel \in RelativeKeys(t, d) }

\* C36: a COPY terminates and the recursive copy visits each descendant of
\* the source once, never descending into rows it has created, for every
\* source directory, the root included: the copy is not cut off by the
\* width of the path column, and every directory row it creates is the
\* destination itself or the counterpart of a directory that was under
\* the source before the request.
C36_CopyTerminates ==
  \A src \in BasePaths(univ) \cup {<<SLASH>>}, dest \in BasePaths(univ) :
    LET srcDir == withTrailingSlash(normalizeDavPath(src))
        destDir == withTrailingSlash(normalizeDavPath(dest))
        r == copyLikeOperation(table, dbType, src, dest, "Infinity", TRUE, NoStats, now)
    IN  \A k \in DOMAIN r.table \ DOMAIN table :
          EndsWithSlash(k)
            => k \in {destDir} \cup { destDir \o d : d \in RelativeDirs(table, srcDir) }

(***************************************************************************)
(* C37: the operations on tables of one more row than Spec admits: a       *)
(* directory rename that fails half-way needs a directory with two rows    *)
(* and a third row in its way.                                             *)
(***************************************************************************)
DoneWide(r) ==
  /\ Cardinality(DOMAIN r.table) <= MaxRows + 1
  /\ DOMAIN r.table \subseteq Keys(univ)
  /\ table' = r.table
  /\ UNCHANGED <<now, dbType, univ, req, options>>

WideWriteFile == \E p \in Paths(univ) : DoneWide(writeFile(table, dbType, p, <<>>, now))

WideMkdir == \E p \in Paths(univ), recursive \in BOOLEAN : DoneWide(mkdir(table, dbType, p, recursive, now))

WideCopyFile == \E p \in Paths(univ), q \in DestPaths(univ) : DoneWide(copyFile(table, dbType, p, q, now))

WideRename ==
  \E p \in Paths(univ), q \in DestPaths(univ) :
    \E r \in rename(table, dbType, p, q, now) : DoneWide(r)

WideRmdir == \E p \in Paths(univ) : DoneWide(rmdir(table, dbType, p, FALSE))

WideUnlink == \E p \in Paths(univ) : DoneWide(unlink(table, p))

NextWide == WideWriteFile \/ WideMkdir \/ WideCopyFile \/ WideRename \/ WideRmdir \/ WideUnlink

SpecWide == Init /\ [][NextWide]_vars

\* a failed call left the table as it was
Atomic(r, t) == r.code /= OK => r.table = t

\* C37: run without interference, each of mkdir, writeFile, copyFile,
\* rename (file and directory), unlink and non-recursive rmdir is
\* all-or-nothing: whenever it returns an error, a key conflict included,
\* the table is exactly as it was before the call.
C37_AllOrNothing ==
  \A p \in Paths(univ) :
    /\ \A recursive \in BOOLEAN : Atomic(mkdir(table, dbType, p, recursive, now), table)
    /\ \A b \in Contents : Atomic(writeFile(table, dbType, p, b, now), table)
    /\ Atomic(unlink(table, p), table)
    /\ Atomic(rmdir(table, dbType, p, FALSE), table)
    /\ \A q \in DestPaths(univ) :
         /\ Atomic(copyFile(table, dbType, p, q, now), table)
         /\ \A r \in rename(table, dbType, p, q, now) : Atomic(r, table)

(***************************************************************************)
(* C38: the operations of Spec on names that hold a backslash, under the   *)
(* three dialects.                                                         *)
(***************************************************************************)
InitEsc ==
  /\ table = <<>>
  /\ now = 1
  /\ dbType \in {"sqlite", "mysql", "pg"}
  /\ univ = "esc"
  /\ req = Idle
  /\ options = DefaultOptions

SpecEsc == InitEsc /\ [][Next]_vars

\* the keys of the rows of before that after no longer holds as they were
Touched(before, after) ==
  { k \in DOMAIN before : k \notin DOMAIN after \/ after[k] /= before[k] }

\* C38: recursive rm and rmdir of a directory d delete only rows whose key
\* is d/ or begins with d/, and rm of a file d only the row d; every other
\* row, a sibling whose name shares a prefix with d included, is left
\* unchanged and no row is added.
C38_RmFrame ==
  \A d \in BasePaths(univ), force \in BOOLEAN :
    LET removed == rmdir(table, dbType, d, TRUE).table
        rmd == rm(table, dbType, d, TRUE, force).table
    IN  /\ DOMAIN removed \subseteq DOMAIN table
        /\ DOMAIN rmd \subseteq DOMAIN table
        /\ Touched(table, removed) \subseteq RowsUnderKey(table, DirKeyOf(d))
        /\ Touched(table, rmd)
             \subseteq IF HasFileRow(table, d) THEN {d} ELSE RowsUnderKey(table, DirKeyOf(d))

(***************************************************************************)
(* C39: a GET of the file /a that overlaps a PUT to /a.  The handler       *)
(* stats the file, sends Content-Length: stat.size and, for a file larger  *)
(* than THRESHOLD, streams it: each read is a query of its own for the     *)
(* next THRESHOLD bytes of whatever content the row holds then.  req is    *)
(* the GET; old is the content at the stat and written the content of the  *)
(* PUT that ran during the GET, both kept for the statement of the claim.  *)
(***************************************************************************)
ChunkContents == UNION { [1..n -> 0..MaxByte] : n \in 0..MaxLen }

InitChunk ==
  /\ table \in { Put(<<>>, pA, FileRow(1, 1, c)) : c \in ChunkContents }
  /\ now = 1
  /\ dbType = "sqlite"
  /\ univ = "tree"
  /\ req = Idle
  /\ options = DefaultOptions

\* readBufferOrStream: stat ??= await fs.stat(pathname), then the choice
GetStat ==
  /\ req = Idle
  /\ stat(table, dbType, pA).found
  /\ req' = [pc |-> IF stat(table, dbType, pA).size > THRESHOLD THEN "stream" ELSE "buffer",
             contentLength |-> stat(table, dbType, pA).size,
             offset |-> 1, pushed |-> <<>>, queries |-> 0, empties |-> 0,
             old |-> readFile(table, pA), written |-> {}]
  /\ UNCHANGED <<table, now, dbType, univ, options>>

\* the file is at most THRESHOLD long: await fs.readFile(pathname)
GetReadFile ==
  /\ req.pc = "buffer"
  /\ req' = [req EXCEPT !.pc = "done", !.pushed = readFile(table, pA)]
  /\ UNCHANGED <<table, now, dbType, univ, options>>

\* read(size) of the stream, size the highWaterMark
GetChunk ==
  /\ req.pc = "stream"
  /\ req.queries < MaxQueries
  /\ LET part == IF pA \in DOMAIN table
                 THEN substr(table[pA].content, req.offset, THRESHOLD)
                 ELSE NULL
     IN  IF part = NULL
         THEN req' = [req EXCEPT !.pc = "done", !.queries = @ + 1, !.empties = @ + 1]
         ELSE req' = [req EXCEPT !.pushed = @ \o part, !.offset = @ + THRESHOLD,
                                 !.queries = @ + 1,
                                 !.empties = IF part = <<>> THEN @ + 1 ELSE @]
  /\ UNCHANGED <<table, now, dbType, univ, options>>

\* app.put of another request while the GET is under way
PutDuringGet ==
  /\ req.pc \in {"stream", "buffer"}
  /\ req.written = {}
  /\ \E c \in ChunkContents :
       /\ table' = httpPut(table, dbType, pA, c, now).table
       /\ req' = [req EXCEPT !.written = {c}]
  /\ UNCHANGED <<now, dbType, univ, options>>

NextChunk == GetStat \/ GetReadFile \/ GetChunk \/ PutDuringGet

SpecChunk == InitChunk /\ [][NextChunk]_vars

\* the stream has reached the end of the content: a query returned no byte
Delivered == req.pc = "stream" /\ req.empties >= 1

\* C39: a streamed GET of a file larger than the threshold that overlaps a
\* PUT to the same path delivers the whole old or the whole new content,
\* never a mixture of chunks of both, and its Content-Length is the number
\* of body bytes delivered.
C39_StreamedGet ==
  Delivered
    => /\ req.pushed \in {req.old} \cup req.written
       /\ req.contentLength = Len(req.pushed)

(***************************************************************************)
(* C40: a PROPFIND that runs while another request deletes a child.  The   *)
(* handler awaits stat(pathname), readdir(pathname) and one stat per       *)
(* entry, all inside one try; req is the PROPFIND, with the entries it     *)
(* got from readdir and the index of the next one; deleted holds the path  *)
(* the other request removed.                                              *)
(***************************************************************************)
\* the tables the requests start from: the explicit directory /a/, with or
\* without a child b (file or directory) and a grandchild /a/b/c
PropTables ==
  LET base == mkdir(<<>>, "sqlite", pA, TRUE, 1).table
      one == {base} \cup { writeFile(base, "sqlite", pAB, c, 1).table : c \in Contents }
                    \cup { mkdir(base, "sqlite", pAB, TRUE, 1).table }
  IN  one \cup { writeFile(t, "sqlite", pABC, c, 1).table : t \in one, c \in Contents }

InitProp ==
  /\ table \in PropTables
  /\ now = 1
  /\ dbType = "sqlite"
  /\ univ = "tree"
  /\ req = Idle
  /\ options = DefaultOptions

\* the answer of the catch block to a rejected stat
PropfindCaught(pathname) ==
  IF isErrnoException(VFSError("ENOENT"))
  THEN (IF pathname = <<SLASH>> THEN 207 ELSE 404)
  ELSE InternalServerError

PropfindDone(pathname, status, deleted) ==
  [pc |-> "done", path |-> pathname, files |-> <<>>, i |-> 0, status |-> status,
   deleted |-> deleted]

\* const stat = await fs.stat(pathname)
PropfindStat ==
  /\ req = Idle
  /\ \E p \in {<<SLASH>>, pA, pAB} :
       LET st == stat(table, dbType, p)
       IN  req' = IF ~st.found THEN PropfindDone(p, PropfindCaught(p), {})
                  ELSE IF ~st.isDirectory THEN PropfindDone(p, 207, {})
                  ELSE [pc |-> "readdir", path |-> p, files |-> <<>>, i |-> 0,
                        status |-> 0, deleted |-> {}]
  /\ UNCHANGED <<table, now, dbType, univ, options>>

\* const files = await fs.readdir(pathname, {withFileTypes: true})
PropfindReaddir ==
  /\ req.pc = "readdir"
  /\ req' = [req EXCEPT !.pc = "children", !.i = 1,
                        !.files = readdir(table, dbType, req.path, FALSE)]
  /\ UNCHANGED <<table, now, dbType, univ, options>>

\* one turn of the loop: const stat = await fs.stat(path); after the last
\* entry the 207
PropfindChildStat ==
  /\ req.pc = "children"
  /\ req' = IF req.i > Len(req.files) THEN PropfindDone(req.path, 207, req.deleted)
            ELSE IF stat(table, dbType, ChildPath(req.path, req.files[req.i].name)).found
              THEN [req EXCEPT !.i = @ + 1]
            ELSE PropfindDone(req.path, PropfindCaught(req.path), req.deleted)
  /\ UNCHANGED <<table, now, dbType, univ, options>>

\* app.delete of another request, once, between the readdir and a stat
DeleteChild ==
  /\ req.pc = "children"
  /\ req.deleted = {}
  /\ \E q \in {pAB, pABC} :
       /\ table' = httpDelete(table, dbType, q).table
       /\ req' = [req EXCEPT !.deleted = {q}]
  /\ UNCHANGED <<now, dbType, univ, options>>

NextProp == PropfindStat \/ PropfindReaddir \/ PropfindChildStat \/ DeleteChild

SpecProp == InitProp /\ [][NextProp]_vars

\* C40: a PROPFIND on a directory that exists throughout the request
\* answers 207 also when another request deletes one of its children
\* between the readdir and that child's stat; it does not fail with 404 or
\* 500.
C40_PropfindBestEffort ==
  /\ req.pc = "done"
  /\ req.deleted /= {}
  /\ stat(table, dbType, req.path).found
  /\ stat(table, dbType, req.path).isDirectory
  => req.status = 207

====
